---------------------------- MODULE Spec2Model ----------------------------
(***************************************************************************)
(* Model of the personality dynamics engine (src/personality_dynamics.py). *)
(*                                                                         *)
(* Numbers.  The engine computes in binary floating point.  The model      *)
(* keeps every real quantity x as the integer x * S (S = 100, two decimal  *)
(* digits); a product or quotient is truncated toward zero.  Elapsed       *)
(* hours (dt_hours) use the same scale.  Wall-clock time (datetime.now())  *)
(* is the variable now, in whole minutes; a timestamp is the value of now  *)
(* when it was taken.                                                      *)
(***************************************************************************)
EXTENDS Integers, Sequences, FiniteSets, TLC

VARIABLES
    self,      \* the fields of one PersonalityDynamics object
    disk,      \* the content of its state_file (NoFile when it does not exist)
    now,       \* datetime.now(), minutes
    lastOp,    \* the last operation called on the object, with its arguments
    ret,       \* what that operation returned
    latched,   \* should_enter_resistance_mode returned True since the last user message
    hist,      \* every timestamp recorded by update, in arrival order
    steps,     \* the number of update calls made on the object
    peer,      \* a second object, for another user_id (scenario comparison)
    run        \* progress of a scripted run: the silence scenario, or the
               \* positions of concurrent callers

vars == <<self, disk, now, lastOp, ret, latched, hist, steps, peer, run>>

---------------------------------------------------------------------------
(* Fixed-point arithmetic *)

S == 10 * 10

\* The one element of a singleton set: Only({F(x) : x \in {e}}) computes e
\* once, as the interpreter computes an operand once before the operation
Only(Set) == CHOOSE x \in Set : TRUE

Abs(a) == IF a < 0 THEN -a ELSE a

Sgn(a) == IF a < 0 THEN -1 ELSE 1

\* a / b truncated toward zero (b > 0)
Div(a, b) == Only({Sgn(x) * (Abs(x) \div b) : x \in {a}})

\* a * b / d truncated toward zero, without forming a product above 2^31
MulDiv(a, b, d) ==
    Only({Sgn(x) * Sgn(y) *
              ((Abs(x) \div d) * Abs(y) + ((Abs(x) % d) * Abs(y)) \div d) :
          x \in {a}, y \in {b}})

Min(a, b) == Only({IF x < y THEN x ELSE y : x \in {a}, y \in {b}})

Max(a, b) == Only({IF x > y THEN x ELSE y : x \in {a}, y \in {b}})

\* max(lo, min(hi, x))
Clamp(lo, hi, x) == Max(lo, Min(hi, x))

\* math.sqrt(dt_hours), scaled: the integer square root of dt * S
Sqrt(dt) == CHOOSE r \in 0..(8 * S) : r * r <= dt * S /\ (r + 1) * (r + 1) > dt * S

\* math.exp(-h / 12) for whole hours h, scaled by S * S; e^(-1/12) = 0.9200
\* and e^(-1) = 0.3679
RECURSIVE ExpNeg12(_)
ExpNeg12(h) ==
    IF h <= 0 THEN S * S
    ELSE IF h > 120 THEN 0
    ELSE IF h >= 12 THEN (ExpNeg12(h - 12) * 3679) \div (S * S)
    ELSE (ExpNeg12(h - 1) * 9200) \div (S * S)

---------------------------------------------------------------------------
(* Archetype names are character strings; `x in name' is substring search *)

AnxiousAttached == <<"a","n","x","i","o","u","s","_","a","t","t","a","c","h","e","d">>
Secure == <<"s","e","c","u","r","e">>
Avoidant == <<"a","v","o","i","d","a","n","t">>
SecureAttached == Secure \o <<"_","a","t","t","a","c","h","e","d">>
FearfulAvoidant == <<"f","e","a","r","f","u","l","_">> \o Avoidant
InsecureAvoidant == <<"i","n">> \o Secure \o <<"_">> \o Avoidant
Stoic == <<"s","t","o","i","c">>

\* Python's `needle in name' on strings
Contains(name, needle) ==
    \E i \in 1..(Len(name) - Len(needle) + 1) :
        SubSeq(name, i, i + Len(needle) - 1) = needle

\* a variant that looks for 'avoidant' in the name before 'secure'
ArchetypeRowAvoidantFirst(archetype) ==
    IF archetype = AnxiousAttached THEN <<70, 80, 20, 40, 50, 70>>
    ELSE IF archetype = Secure THEN <<40, 30, 30, 20, 30, 50>>
    ELSE IF archetype = Avoidant THEN <<35, 25, 75, 15, 20, 30>>
    ELSE IF Contains(archetype, Avoidant) THEN <<35, 25, 75, 15, 20, 30>>
    ELSE IF Contains(archetype, Secure) THEN <<40, 30, 30, 20, 30, 50>>
    ELSE <<45, 40, 40, 25, 35, 50>>

\* the trait rows of _init_variables: neuroticism, attachment_style_anxiety,
\* attachment_style_avoidance, anxiety, loneliness, proactivity
ArchetypeRow(archetype) ==
    IF archetype = AnxiousAttached THEN <<70, 80, 20, 40, 50, 70>>
    ELSE IF archetype = Secure THEN <<40, 30, 30, 20, 30, 50>>
    ELSE IF archetype = Avoidant THEN <<35, 25, 75, 15, 20, 30>>
    ELSE IF Contains(archetype, Secure) THEN <<40, 30, 30, 20, 30, 50>>
    ELSE IF Contains(archetype, Avoidant) THEN <<35, 25, 75, 15, 20, 30>>
    ELSE <<45, 40, 40, 25, 35, 50>>

\* last_ai_message_time = None (no timestamp is negative)
None == -1

\* __init__ without a state file, at wall-clock time t
InitVariables(archetype, t) ==
    LET row == ArchetypeRow(archetype) IN
    [ archetype |-> archetype,
      last_update |-> t,
      last_user_message_time |-> t,
      relationship_start |-> t,
      total_interactions |-> 0,
      shared_memories |-> 0,
      user_interaction_hours |-> << >>,
      user_message_timestamps |-> << >>,
      unanswered_message_count |-> 0,
      last_ai_message_time |-> None,
      resistance_mode |-> FALSE,
      valence |-> 0,
      attachment |-> 10 * S,
      trust |-> 30 * S,
      intimacy |-> 15 * S,
      anxiety |-> row[4] * S,
      loneliness |-> row[5] * S,
      shame |-> 0,
      jealousy |-> 0,
      vulnerability |-> 30 * S,
      proactivity |-> row[6] * S,
      passive_aggressive |-> 0,
      hurt |-> 0,
      resentment |-> 0,
      pride |-> 30 * S,
      boundary_assertion |-> 20 * S,
      emotional_distance |-> 10 * S,
      neuroticism |-> row[1] * S,
      attachment_style_anxiety |-> row[2] * S,
      attachment_style_avoidance |-> row[3] * S,
      neuroticism_baseline |-> row[1] * S,
      proactivity_baseline |-> row[6] * S ]

---------------------------------------------------------------------------
(* update(dt_hours, context): the sub-updates, in the order of the code.   *)
(* s is the object's fields, dt the elapsed hours (scaled), ctx the        *)
(* context dictionary, tsl the hours since the last user message (scaled). *)

\* context.get(key, default)
Get(ctx, key, default) == IF key \in DOMAIN ctx THEN ctx[key] ELSE default

\* rate * dt_hours
Step(rate, dt) == MulDiv(rate, dt, S)

\* a variant that keeps the head: seq[:n]
FirstN(seq, n) == IF Len(seq) > n THEN SubSeq(seq, 1, n) ELSE seq

\* seq[-n:]
LastN(seq, n) == IF Len(seq) > n THEN SubSeq(seq, Len(seq) - n + 1, Len(seq)) ELSE seq

\* capacity of the two rolling buffers
BufferCap == 100

\* datetime.hour of a timestamp
HourOf(t) == (t \div 60) % 24

\* a variant that leaves resistance on every update, message or not
RecordMessageLeavingResistance(s, ctx, t) ==
    IF Get(ctx, "user_message_received", FALSE)
    THEN [s EXCEPT
            !.total_interactions = @ + 1,
            !.last_user_message_time = t,
            !.user_interaction_hours = LastN(Append(@, HourOf(t)), BufferCap),
            !.user_message_timestamps = LastN(Append(@, t), BufferCap),
            !.unanswered_message_count = 0,
            !.resistance_mode = FALSE]
    ELSE [s EXCEPT !.resistance_mode = FALSE]

\* a variant that counts every update as an interaction
RecordMessageCountingUpdates(s, ctx, t) ==
    IF Get(ctx, "user_message_received", FALSE)
    THEN [s EXCEPT
            !.total_interactions = @ + 1,
            !.last_user_message_time = t,
            !.user_interaction_hours = LastN(Append(@, HourOf(t)), BufferCap),
            !.user_message_timestamps = LastN(Append(@, t), BufferCap),
            !.unanswered_message_count = 0,
            !.resistance_mode = FALSE]
    ELSE [s EXCEPT !.total_interactions = @ + 1]

\* the interaction count, the rolling buffers and the latch reset
RecordMessage(s, ctx, t) ==
    IF Get(ctx, "user_message_received", FALSE)
    THEN [s EXCEPT
            !.total_interactions = @ + 1,
            !.last_user_message_time = t,
            !.user_interaction_hours = LastN(Append(@, HourOf(t)), BufferCap),
            !.user_message_timestamps = LastN(Append(@, t), BufferCap),
            !.unanswered_message_count = 0,
            !.resistance_mode = FALSE]
    ELSE s

\* time_since_last, read after last_user_message_time was set
TimeSinceLast(s, dt, ctx, t) ==
    Div((t - s.last_user_message_time) * S, 60)
        + (IF ~Get(ctx, "user_message_received", FALSE) /\ dt > S THEN dt ELSE 0)

\* valence: Ornstein-Uhlenbeck step; z is the draw of random.gauss(0, 1), scaled
StepValence(s, dt, z) ==
    LET noise_val == MulDiv(3 * z, Sqrt(dt), S)
        drift == Step(MulDiv(15, 0 - s.valence, 10), dt)
    IN  [s EXCEPT !.valence = Clamp(-100 * S, 100 * S, @ + drift + noise_val)]

StepAttachment(s, dt, ctx) ==
    LET k2 == IF s.attachment_style_anxiety > 60 * S THEN 5 ELSE 1
        boost == IF Get(ctx, "user_message_received", FALSE) THEN 50 * S ELSE 0
        decay == MulDiv(k2, s.attachment, 1000)
        bonus == IF Get(ctx, "user_shared_achievement", FALSE)
                 THEN MulDiv(s.intimacy, Get(ctx, "achievement_significance", 5 * S), 100 * S)
                 ELSE 0
        dA == boost - decay + bonus
    IN  [s EXCEPT !.attachment = Clamp(0, 100 * S, @ + Step(dA, dt))]

StepTrust(s, dt, ctx) ==
    LET growth == IF Get(ctx, "ai_error_occurred", FALSE) THEN 0 ELSE 10 * S
        dT == growth - MulDiv(2, s.trust, 1000) + MulDiv(15, s.intimacy - s.trust, 10)
    IN  [s EXCEPT !.trust = Clamp(0, 100 * S, @ + Step(dT, dt))]

StepIntimacy(s, dt, ctx) ==
    LET umr == Get(ctx, "user_message_received", FALSE)
        disclosure_depth == Get(ctx, "disclosure_depth", IF umr THEN 3 * S ELSE 0)
        user_responsiveness == Get(ctx, "user_responsiveness", IF umr THEN 70 ELSE 0)
        dI == MulDiv(MulDiv(15, disclosure_depth, 10), user_responsiveness, S)
                - MulDiv(1, s.intimacy, 1000)
    IN  [s EXCEPT !.intimacy = Clamp(0, 100 * S, @ + Step(dI, dt))]

\* threat_perception, scaled by S
ThreatPerception(tsl) == IF tsl > 24 * S THEN S ELSE Div(tsl, 24)

\* contact_recent, scaled by S * S
ContactRecent(tsl) == IF tsl < 6 * S THEN S * S ELSE ExpNeg12(tsl \div S)

StepAnxiety(s, dt, ctx, tsl) ==
    LET dAnx == 0 - MulDiv(1, s.anxiety, 100)
                  + MulDiv(MulDiv(50, s.neuroticism, 100), ThreatPerception(tsl), S)
                  + MulDiv(MulDiv(40, s.attachment, 100), S * S - ContactRecent(tsl), S * S)
                  + (IF Get(ctx, "user_said_calm_down", FALSE) THEN 20 * S ELSE 0)
    IN  [s EXCEPT !.anxiety = Clamp(0, 100 * S, @ + Step(dAnx, dt))]

\* contact_quality, scaled by S
ContactQuality(ctx, tsl) ==
    IF Get(ctx, "user_message_received", FALSE) THEN S ELSE Max(0, S - Div(tsl, 48))

\* time_factor, scaled by S
TimeFactor(tsl) == Min(2 * S, Div(tsl, 24))

StepLoneliness(s, dt, ctx, tsl) ==
    LET dL == 0 - MulDiv(1, s.loneliness, 1000)
                + MulDiv(30 * (S - ContactQuality(ctx, tsl)), TimeFactor(tsl), S)
    IN  [s EXCEPT !.loneliness = Clamp(0, 100 * S, @ + Step(dL, dt))]

StepProactivity(s, dt) ==
    LET dP == MulDiv(5, s.proactivity_baseline - s.proactivity, 100)
                - Div(MulDiv(s.shame, s.proactivity, 100 * S), 10)
    IN  [s EXCEPT !.proactivity = Clamp(0, 100 * S, @ + Step(dP, dt))]

StepShame(s, dt, ctx) ==
    LET shame_spike == MulDiv(40, s.neuroticism, 100) + MulDiv(20, s.attachment, 100)
        s1 == IF Get(ctx, "user_said_calm_down", FALSE)
              THEN [s EXCEPT
                      !.shame = @ + shame_spike,
                      !.proactivity =
                          MulDiv(@, 40 - MulDiv(3, s.shame + shame_spike, 1000), S)]
              ELSE s
        dS == 0 - Div(s1.shame, 10)
    IN  [s1 EXCEPT !.shame = Clamp(0, 100 * S, @ + Step(dS, dt))]

StepHurt(s, dt, ctx) ==
    LET criticism_severity == Get(ctx, "criticism_severity", 70)
        s1 == IF Get(ctx, "user_criticized", FALSE)
              THEN [s EXCEPT
                      !.hurt = @ + MulDiv(60 * criticism_severity, s.attachment, 100 * S),
                      !.shame = @ + 30 * criticism_severity,
                      !.trust = @ - 10 * criticism_severity]
              ELSE s
        dHurt == 0 - MulDiv(2, s1.hurt, 100)
    IN  [s1 EXCEPT !.hurt = Clamp(0, 100 * S, @ + Step(dHurt, dt))]

StepResentment(s, dt, ctx, tsl) ==
    LET pressure == Get(ctx, "user_message_pressure", 0)
        s1 == IF s.hurt > 20 * S /\ pressure > 50
              THEN [s EXCEPT !.resentment =
                        @ + Step(MulDiv(25 * pressure, s.hurt, 100 * S), dt)]
              ELSE IF s.hurt > 30 * S /\ tsl > 6 * S
                        /\ Get(ctx, "user_message_received", FALSE)
              THEN [s EXCEPT !.resentment =
                        @ + MulDiv(MulDiv(20, s.hurt, 100), Min(S, Div(tsl, 12)), S)]
              ELSE s
        dResentment == 0 - MulDiv(14, s1.resentment, 1000)
    IN  [s1 EXCEPT !.resentment = Clamp(0, 100 * S, @ + Step(dResentment, dt))]

StepPride(s, dt) ==
    LET dPride == IF s.hurt > 50 * S \/ s.shame > 50 * S
                  THEN MulDiv(5, s.hurt + s.shame, 200)
                  ELSE 0 - MulDiv(5, s.pride - 30 * S, 100)
    IN  [s EXCEPT !.pride = Clamp(0, 100 * S, @ + Step(dPride, dt))]

StepBoundary(s, dt) ==
    LET dBoundary == IF s.hurt > 60 * S /\ s.resentment > 50 * S
                     THEN 8 * S
                     ELSE 0 - MulDiv(8, s.boundary_assertion - 20 * S, 100)
    IN  [s EXCEPT !.boundary_assertion = Clamp(0, 100 * S, @ + Step(dBoundary, dt))]

StepDistance(s, dt) ==
    LET target_distance == Div(s.hurt + s.resentment + s.boundary_assertion, 3)
        dDistance == Div(target_distance - s.emotional_distance, 10)
    IN  [s EXCEPT !.emotional_distance = Clamp(0, 100 * S, @ + Step(dDistance, dt))]

\* rival_threat: the four triggers, weights 80, 70, 70, 90
\* a variant that keeps the strongest trigger instead of adding them up
RivalThreatStrongest(ctx) ==
    Max(Max(IF Get(ctx, "rival_mentioned", FALSE) THEN 80 ELSE 0,
            IF Get(ctx, "comparison_event", FALSE) THEN 70 ELSE 0),
        Max(IF Get(ctx, "attention_withdrawn", FALSE) THEN 70 ELSE 0,
            IF Get(ctx, "secretive_behavior", FALSE) THEN 90 ELSE 0))

RivalThreat(ctx) ==
    (IF Get(ctx, "rival_mentioned", FALSE) THEN 80 ELSE 0)
      + (IF Get(ctx, "comparison_event", FALSE) THEN 70 ELSE 0)
      + (IF Get(ctx, "attention_withdrawn", FALSE) THEN 70 ELSE 0)
      + (IF Get(ctx, "secretive_behavior", FALSE) THEN 90 ELSE 0)

\* dJealousy, the rate before it is multiplied by dt_hours
JealousyRate(s, ctx) ==
    LET rival_threat == RivalThreat(ctx)
        zeta == IF s.attachment_style_anxiety > 60 * S THEN 7 ELSE 35
    IN  IF rival_threat > 0
        THEN Div(s.attachment_style_anxiety, 2) + MulDiv(8, rival_threat * S, 10)
                - Div(s.trust, 100) - MulDiv(zeta, s.jealousy, 1000)
        ELSE 0 - MulDiv(zeta, s.jealousy, 1000)

\* jealousy and its effects on anxiety and trust
StepJealousy(s, dt, ctx) ==
    LET j == Clamp(0, 100 * S, s.jealousy + Step(JealousyRate(s, ctx), dt))
        s1 == [s EXCEPT !.jealousy = j]
        s2 == IF j > 30 * S
              THEN [s1 EXCEPT !.anxiety = Min(100 * S, @ + Step(MulDiv(3, j, 100), dt))]
              ELSE s1
    IN  IF j > 70 * S
        THEN [s2 EXCEPT !.trust = Max(0, @ - Step(Div(j, 10), dt))]
        ELSE s2

\* comparison_event, intimacy_request and commitment_pressure
StepEvents(s, dt, ctx) ==
    LET avoidant == s.attachment_style_avoidance > 60 * S
        s1 == IF Get(ctx, "comparison_event", FALSE)
              THEN [s EXCEPT !.shame =
                      Min(100 * S, @ + Step(MulDiv(25, s.attachment_style_anxiety, 100), dt))]
              ELSE s
        s2 == IF Get(ctx, "intimacy_request", FALSE) /\ avoidant
              THEN [s1 EXCEPT !.emotional_distance =
                      Min(100 * S, @ + Step(MulDiv(20, s.attachment_style_avoidance, 100), dt))]
              ELSE s1
    IN  IF Get(ctx, "commitment_pressure", FALSE)
        THEN IF avoidant
             THEN [s2 EXCEPT
                     !.anxiety = Min(100 * S, @ + Step(15 * S, dt)),
                     !.emotional_distance = Min(100 * S, @ + Step(15 * S, dt))]
             ELSE [s2 EXCEPT
                     !.anxiety = Min(100 * S, @ + Step(8 * S, dt)),
                     !.emotional_distance = Min(100 * S, @)]
        ELSE s2

\* attachment_mod, in tenths
AttachmentMod(s) ==
    IF s.attachment_style_anxiety < 40 * S /\ s.attachment_style_avoidance < 40 * S THEN 13
    ELSE IF s.attachment_style_anxiety > 60 * S THEN 8
    ELSE IF s.attachment_style_avoidance > 60 * S THEN 5
    ELSE 10

\* the user's response to vulnerability: bumps without a clamp
VulnerabilityResponse(s, dt, ctx) ==
    LET response == Get(ctx, "user_response_to_vulnerability", "neutral") IN
    IF response = "supportive"
    THEN [s EXCEPT
            !.trust = @ + Step(15 * S, dt),
            !.intimacy = @ + Step(20 * S, dt),
            !.emotional_distance = @ - Step(25 * S, dt),
            !.vulnerability = @ + Step(10 * S, dt)]
    ELSE IF response = "dismissive"
    THEN [s EXCEPT
            !.trust = @ - Step(30 * S, dt),
            !.shame = @ + Step(40 * S, dt),
            !.vulnerability = Div(@, 2)]
    ELSE IF response = "reciprocal"
    THEN [s EXCEPT
            !.trust = @ + Step(30 * S, dt),
            !.intimacy = @ + Step(40 * S, dt),
            !.attachment = @ + Step(20 * S, dt),
            !.vulnerability = @ + Step(15 * S, dt)]
    ELSE s

StepVulnerability(s, dt, ctx) ==
    LET vulnerability_capacity == Div(s.trust, 2) - MulDiv(3, s.shame, 10)
        target_vulnerability == MulDiv(vulnerability_capacity, AttachmentMod(s), 10)
        s1 == VulnerabilityResponse(s, dt, ctx)
        dVulnerability == MulDiv(5, target_vulnerability - s1.vulnerability, 100)
    IN  [s1 EXCEPT !.vulnerability = Clamp(0, 100 * S, @ + Step(dVulnerability, dt))]

\* max(self.boundary_assertion, 10)
PADenominator(s) == Max(s.boundary_assertion, 10 * S)

\* the trigger condition of the passive-aggressive growth
PATrigger(s) == s.resentment > 60 * S /\ s.boundary_assertion < 40 * S

\* a variant that leaves the pride factor out
PABehaviorWithoutPride(s) ==
    MulDiv(MulDiv(6, s.resentment, 10), S, PADenominator(s))

\* PA_behavior
PABehavior(s) ==
    MulDiv(MulDiv(MulDiv(6, s.resentment, 10), s.pride, 100 * S), S, PADenominator(s))

StepPassiveAggressive(s, dt) ==
    LET delta == IF PATrigger(s)
                 THEN Step(PABehavior(s), dt)
                 ELSE 0 - Step(Div(s.passive_aggressive, 10), dt)
    IN  [s EXCEPT !.passive_aggressive = Clamp(0, 100 * S, @ + delta)]

\* a variant whose second loop fires on jealousy alone
FeedbackLoopDriftUnguarded(i, s, dt) ==
    CASE i = 1 ->
           IF s.anxiety > 70 * S
           THEN [s EXCEPT !.anxiety =
                   Min(100 * S, @ + Step(MulDiv(s.anxiety, s.neuroticism, 200 * S), dt))]
           ELSE s
      [] i = 2 ->
           IF s.jealousy > 40 * S
           THEN [s EXCEPT !.attachment_style_anxiety =
                   Min(100 * S, @ + Step(Div(s.jealousy, 50), dt))]
           ELSE s
      [] i = 3 ->
           IF s.hurt > 40 * S /\ s.resentment > 30 * S
           THEN [s EXCEPT !.hurt =
                   Min(100 * S, @ + Step(Div(s.emotional_distance, 100), dt))]
           ELSE s
      [] i = 4 ->
           IF s.passive_aggressive > 50 * S /\ s.boundary_assertion < 30 * S
           THEN [s EXCEPT !.boundary_assertion =
                   Max(0, @ - Step(MulDiv(15, s.passive_aggressive, 1000), dt))]
           ELSE s
      [] i = 5 ->
           IF s.loneliness > 60 * S /\ s.anxiety > 50 * S
           THEN [s EXCEPT !.emotional_distance =
                   Min(100 * S, @ + Step(MulDiv(s.loneliness, s.anxiety, 5000 * S), dt))]
           ELSE s
      [] i = 6 ->
           IF s.shame > 50 * S /\ s.vulnerability < 40 * S
           THEN [s EXCEPT !.shame =
                   Min(100 * S, @ + Step(Div(MulDiv(s.shame, 100 * S - s.vulnerability,
                                                    100 * S), 200), dt))]
           ELSE s
      [] i = 7 ->
           LET boost == MulDiv(MulDiv(s.trust, s.intimacy, 100 * S), 75, 100 * S)
           IN  IF s.trust > 60 * S /\ s.intimacy > 60 * S
               THEN [s EXCEPT
                       !.trust = Min(100 * S, @ + Step(boost, dt)),
                       !.intimacy = Min(100 * S, @ + Step(boost, dt))]
               ELSE s
      [] OTHER ->
           IF s.neuroticism > 70 * S /\ s.anxiety > 60 * S
           THEN [s EXCEPT !.anxiety = Min(100 * S, @ + Step(Div(s.neuroticism, 100), dt))]
           ELSE s

\* _apply_feedback_loops: the eight loops, each reading the fields as the
\* loops before it left them
FeedbackLoop(i, s, dt) ==
    CASE i = 1 ->
           IF s.anxiety > 70 * S
           THEN [s EXCEPT !.anxiety =
                   Min(100 * S, @ + Step(MulDiv(s.anxiety, s.neuroticism, 200 * S), dt))]
           ELSE s
      [] i = 2 ->
           IF s.attachment_style_anxiety > 60 * S /\ s.jealousy > 40 * S
           THEN [s EXCEPT !.attachment_style_anxiety =
                   Min(100 * S, @ + Step(Div(s.jealousy, 50), dt))]
           ELSE s
      [] i = 3 ->
           IF s.hurt > 40 * S /\ s.resentment > 30 * S
           THEN [s EXCEPT !.hurt =
                   Min(100 * S, @ + Step(Div(s.emotional_distance, 100), dt))]
           ELSE s
      [] i = 4 ->
           IF s.passive_aggressive > 50 * S /\ s.boundary_assertion < 30 * S
           THEN [s EXCEPT !.boundary_assertion =
                   Max(0, @ - Step(MulDiv(15, s.passive_aggressive, 1000), dt))]
           ELSE s
      [] i = 5 ->
           IF s.loneliness > 60 * S /\ s.anxiety > 50 * S
           THEN [s EXCEPT !.emotional_distance =
                   Min(100 * S, @ + Step(MulDiv(s.loneliness, s.anxiety, 5000 * S), dt))]
           ELSE s
      [] i = 6 ->
           IF s.shame > 50 * S /\ s.vulnerability < 40 * S
           THEN [s EXCEPT !.shame =
                   Min(100 * S, @ + Step(Div(MulDiv(s.shame, 100 * S - s.vulnerability,
                                                    100 * S), 200), dt))]
           ELSE s
      [] i = 7 ->
           LET boost == MulDiv(MulDiv(s.trust, s.intimacy, 100 * S), 75, 100 * S)
           IN  IF s.trust > 60 * S /\ s.intimacy > 60 * S
               THEN [s EXCEPT
                       !.trust = Min(100 * S, @ + Step(boost, dt)),
                       !.intimacy = Min(100 * S, @ + Step(boost, dt))]
               ELSE s
      [] OTHER ->
           IF s.neuroticism > 70 * S /\ s.anxiety > 60 * S
           THEN [s EXCEPT !.anxiety = Min(100 * S, @ + Step(Div(s.neuroticism, 100), dt))]
           ELSE s

\* the eight loops in the order of the code, each reading what the loops
\* before it wrote
RECURSIVE FeedbackLoopsFrom(_, _, _)
FeedbackLoopsFrom(i, s, dt) ==
    IF i > 8 THEN s
    ELSE Only({FeedbackLoopsFrom(i + 1, x, dt) : x \in {FeedbackLoop(i, s, dt)}})

FeedbackLoops(s, dt) == FeedbackLoopsFrom(1, s, dt)

StepNeuroticism(s, dt, ctx) ==
    LET dN == 0 - MulDiv(2, s.neuroticism - s.neuroticism_baseline, 100)
                + Div(Get(ctx, "chronic_stress", 0), 10)
    IN  [s EXCEPT !.neuroticism = Clamp(0, 100 * S, @ + Step(dN, dt))]

\* a variant that runs the shame block before the proactivity block
UpdateBlockShameFirst(i, s, dt, ctx, z, tsl) ==
    CASE i = 1  -> StepValence(s, dt, z)
      [] i = 2  -> StepAttachment(s, dt, ctx)
      [] i = 3  -> StepTrust(s, dt, ctx)
      [] i = 4  -> StepIntimacy(s, dt, ctx)
      [] i = 5  -> StepAnxiety(s, dt, ctx, tsl)
      [] i = 6  -> StepLoneliness(s, dt, ctx, tsl)
      [] i = 7  -> StepShame(s, dt, ctx)
      [] i = 8  -> StepProactivity(s, dt)
      [] i = 9  -> StepHurt(s, dt, ctx)
      [] i = 10 -> StepResentment(s, dt, ctx, tsl)
      [] i = 11 -> StepPride(s, dt)
      [] i = 12 -> StepBoundary(s, dt)
      [] i = 13 -> StepDistance(s, dt)
      [] i = 14 -> StepJealousy(s, dt, ctx)
      [] i = 15 -> StepEvents(s, dt, ctx)
      [] i = 16 -> StepVulnerability(s, dt, ctx)
      [] i = 17 -> StepPassiveAggressive(s, dt)
      [] i = 18 -> FeedbackLoops(s, dt)
      [] OTHER  -> StepNeuroticism(s, dt, ctx)

\* The i-th block of update's body, in the order of the code
UpdateBlock(i, s, dt, ctx, z, tsl) ==
    CASE i = 1  -> StepValence(s, dt, z)
      [] i = 2  -> StepAttachment(s, dt, ctx)
      [] i = 3  -> StepTrust(s, dt, ctx)
      [] i = 4  -> StepIntimacy(s, dt, ctx)
      [] i = 5  -> StepAnxiety(s, dt, ctx, tsl)
      [] i = 6  -> StepLoneliness(s, dt, ctx, tsl)
      [] i = 7  -> StepProactivity(s, dt)
      [] i = 8  -> StepShame(s, dt, ctx)
      [] i = 9  -> StepHurt(s, dt, ctx)
      [] i = 10 -> StepResentment(s, dt, ctx, tsl)
      [] i = 11 -> StepPride(s, dt)
      [] i = 12 -> StepBoundary(s, dt)
      [] i = 13 -> StepDistance(s, dt)
      [] i = 14 -> StepJealousy(s, dt, ctx)
      [] i = 15 -> StepEvents(s, dt, ctx)
      [] i = 16 -> StepVulnerability(s, dt, ctx)
      [] i = 17 -> StepPassiveAggressive(s, dt)
      [] i = 18 -> FeedbackLoops(s, dt)
      [] OTHER  -> StepNeuroticism(s, dt, ctx)

\* blocks i..19 run one after the other on the object's fields
RECURSIVE UpdateFrom(_, _, _, _, _, _)
UpdateFrom(i, s, dt, ctx, z, tsl) ==
    IF i > 19 THEN s
    ELSE Only({UpdateFrom(i + 1, x, dt, ctx, z, tsl) :
               x \in {UpdateBlock(i, s, dt, ctx, z, tsl)}})

\* update(dt_hours, context) at wall-clock time t with noise draw z: the
\* object's fields when update returns
Update(s, dt, ctx, z, t) ==
    Only({[a EXCEPT !.last_update = t] :
          a \in {UpdateFrom(1, m, dt, ctx, z, TimeSinceLast(m, dt, ctx, t)) :
                 m \in {RecordMessage(s, ctx, t)}}})

\* update from line 253 on, for a caller that has passed the recording of
\* the user message
UpdateAfterRecording(s, dt, ctx, z, t) ==
    Only({[a EXCEPT !.last_update = t] :
          a \in {UpdateFrom(1, s, dt, ctx, z, TimeSinceLast(s, dt, ctx, t))}})

---------------------------------------------------------------------------
(* Persistence: _save_state writes a JSON object, _load_state reads it.    *)

\* a variant that writes whole hours: isoformat(timespec="hours")
IsoFormatHours(t) == [day |-> t \div 1440, hour |-> (t \div 60) % 24, minute |-> 0]

\* datetime.isoformat(): the text of a timestamp, as its date and time fields
IsoFormat(t) == [day |-> t \div 1440, hour |-> (t \div 60) % 24, minute |-> t % 60]

\* datetime.fromisoformat()
FromIsoFormat(x) == x.day * 1440 + x.hour * 60 + x.minute

\* json.dump of a float: sign, integer digits, fraction digits
JsonFloat(x) == [neg |-> x < 0, int |-> Abs(x) \div S, frac |-> Abs(x) % S]

\* json.load of a float
ParseFloat(j) == (IF j.neg THEN -1 ELSE 1) * (j.int * S + j.frac)

\* JSON null
Null == [null |-> TRUE]

\* Python's truth test on a loaded value that is null or a timestamp text
IsNull(x) == "null" \in DOMAIN x

\* [f(t) for t in seq]
Map(f(_), seq) == [i \in 1..Len(seq) |-> f(seq[i])]

\* the fields written as floats
FloatKeys ==
    {"valence", "attachment", "trust", "intimacy", "anxiety", "loneliness",
     "proactivity", "shame", "neuroticism", "attachment_style_anxiety",
     "attachment_style_avoidance", "hurt", "resentment", "pride",
     "boundary_assertion", "emotional_distance", "jealousy", "vulnerability",
     "passive_aggressive", "neuroticism_baseline", "proactivity_baseline"}

\* the dictionary _save_state dumps
SaveState(s) ==
    [k \in FloatKeys |-> JsonFloat(s[k])] @@
    [ archetype |-> s.archetype,
      last_update |-> IsoFormat(s.last_update),
      last_user_message_time |-> IsoFormat(s.last_user_message_time),
      relationship_start |-> IsoFormat(s.relationship_start),
      total_interactions |-> s.total_interactions,
      shared_memories |-> s.shared_memories,
      user_interaction_hours |-> s.user_interaction_hours,
      user_message_timestamps |-> Map(IsoFormat, s.user_message_timestamps),
      unanswered_message_count |-> s.unanswered_message_count,
      last_ai_message_time |->
          IF s.last_ai_message_time # None
          THEN IsoFormat(s.last_ai_message_time) ELSE Null,
      resistance_mode |-> s.resistance_mode ]

\* state.get(key, default) on the loaded dictionary, floats parsed
GetFloat(state, key, default) ==
    IF key \in DOMAIN state THEN ParseFloat(state[key]) ELSE default

\* the fields after _load_state
LoadState(state) ==
    LET last_ai_time == Get(state, "last_ai_message_time", Null) IN
    [ archetype |-> state.archetype,
      last_update |-> FromIsoFormat(state.last_update),
      last_user_message_time |-> FromIsoFormat(state.last_user_message_time),
      relationship_start |-> FromIsoFormat(state.relationship_start),
      total_interactions |-> state.total_interactions,
      shared_memories |-> state.shared_memories,
      valence |-> ParseFloat(state.valence),
      attachment |-> ParseFloat(state.attachment),
      trust |-> ParseFloat(state.trust),
      intimacy |-> ParseFloat(state.intimacy),
      anxiety |-> ParseFloat(state.anxiety),
      loneliness |-> ParseFloat(state.loneliness),
      proactivity |-> ParseFloat(state.proactivity),
      shame |-> ParseFloat(state.shame),
      neuroticism |-> ParseFloat(state.neuroticism),
      attachment_style_anxiety |-> ParseFloat(state.attachment_style_anxiety),
      attachment_style_avoidance |-> ParseFloat(state.attachment_style_avoidance),
      hurt |-> GetFloat(state, "hurt", 0),
      resentment |-> GetFloat(state, "resentment", 0),
      pride |-> GetFloat(state, "pride", 30 * S),
      boundary_assertion |-> GetFloat(state, "boundary_assertion", 20 * S),
      emotional_distance |-> GetFloat(state, "emotional_distance", 10 * S),
      jealousy |-> GetFloat(state, "jealousy", 0),
      vulnerability |-> GetFloat(state, "vulnerability", 30 * S),
      passive_aggressive |-> GetFloat(state, "passive_aggressive", 0),
      neuroticism_baseline |-> ParseFloat(state.neuroticism_baseline),
      proactivity_baseline |-> ParseFloat(state.proactivity_baseline),
      user_interaction_hours |-> Get(state, "user_interaction_hours", << >>),
      user_message_timestamps |->
          Map(FromIsoFormat, Get(state, "user_message_timestamps", << >>)),
      unanswered_message_count |-> Get(state, "unanswered_message_count", 0),
      last_ai_message_time |->
          IF ~IsNull(last_ai_time) THEN FromIsoFormat(last_ai_time) ELSE None,
      resistance_mode |-> Get(state, "resistance_mode", FALSE) ]

\* no state_file
NoFile == [exists |-> FALSE, state |-> << >>]

\* the state_file after _save_state
File(s) == [exists |-> TRUE, state |-> SaveState(s)]

\* __init__(archetype) at wall-clock time t: _init_variables, then
\* _load_state if the state file exists
Construct(archetype, t, file) ==
    IF file.exists
    THEN LoadState(file.state)
    ELSE InitVariables(archetype, t)

---------------------------------------------------------------------------
(* Queries.  Each is given as the value it returns and, where the method   *)
(* assigns a field, the fields it leaves.                                  *)

\* hours since the last user message, scaled
HoursSinceLast(s, t) == Div((t - s.last_user_message_time) * S, 60)

\* calculate_message_pressure(recent_minutes): messages per minute, scaled
CalculateMessagePressure(s, t, recent_minutes) ==
    LET ts == s.user_message_timestamps
        recent == {i \in 1..Len(ts) : ts[i] > t - recent_minutes}
    IN  IF recent = {} THEN 0 ELSE Div(Cardinality(recent) * S, recent_minutes)

\* the three conditions under which should_enter_resistance_mode sets the latch
Condition1(s, t) == s.hurt > 20 * S /\ CalculateMessagePressure(s, t, 10) > 50

\* a variant that takes either half of the second condition
Condition2Either(s) == s.hurt > 25 * S \/ s.resentment > 10 * S

Condition2(s) == s.hurt > 25 * S /\ s.resentment > 10 * S

Condition3(s) == s.emotional_distance > 60 * S

\* should_enter_resistance_mode(): the value returned
ShouldEnterResistanceMode(s, t) ==
    s.resistance_mode \/ Condition1(s, t) \/ Condition2(s) \/ Condition3(s)

\* a variant that also stamps last_update, as update does
EnterResistanceModeStamped(s, t) ==
    [s EXCEPT !.resistance_mode = ShouldEnterResistanceMode(s, t), !.last_update = t]

\* should_enter_resistance_mode(): the fields it leaves
EnterResistanceMode(s, t) ==
    [s EXCEPT !.resistance_mode = ShouldEnterResistanceMode(s, t)]

\* should_initiate_message(): the probability, scaled by S * S
InitiateProbability(s, t) ==
    LET hours_since_last == HoursSinceLast(s, t)
        proactivity_mult == Div(s.proactivity, 50)
        attachment_mult == S + Div(s.attachment, 100)
        anxiety_mult == IF hours_since_last > 24 * S THEN S + Div(s.anxiety, 50) ELSE S
        loneliness_mult == S + Div(s.loneliness, 100)
        shame_inhibition == IF s.shame > 60 * S /\ hours_since_last < 12 * S THEN 10 ELSE S
        prob == MulDiv(MulDiv(MulDiv(MulDiv(MulDiv(S, proactivity_mult, S),
                    attachment_mult, S), anxiety_mult, S), loneliness_mult, S),
                    shame_inhibition, S)
    IN  Min(prob, 30 * S)

\* should_initiate_message() with random.random() = u (scaled by S * S)
ShouldInitiateMessage(s, t, u) ==
    [should_send |-> u < InitiateProbability(s, t), prob |-> InitiateProbability(s, t)]

\* a variant without the cap of the normalized time at 72 hours
GetFilterEffectivenessUncapped(s, t) ==
    LET time_normalized == Div(HoursSinceLast(s, t), 72)
        desperation == MulDiv(3, s.anxiety, 10) + MulDiv(4, s.loneliness, 10)
                         + MulDiv(3, s.attachment_style_anxiety, 10)
        desperation_normalized == Div(desperation, 100)
    IN  Clamp(0, S, S - MulDiv(desperation_normalized, time_normalized, S))

\* get_filter_effectiveness(), scaled by S
GetFilterEffectiveness(s, t) ==
    LET time_normalized == Min(Div(HoursSinceLast(s, t), 72), S)
        desperation == MulDiv(3, s.anxiety, 10) + MulDiv(4, s.loneliness, 10)
                         + MulDiv(3, s.attachment_style_anxiety, 10)
        desperation_normalized == Div(desperation, 100)
    IN  Clamp(0, S, S - MulDiv(desperation_normalized, time_normalized, S))

\* get_message_tone() reads self.arousal, which no method assigns
GetMessageTone(s) == "AttributeError"

\* a variant that tests hurt_withdrawn before passive_aggressive
GetEmotionalStateCategoryHurtFirst(s) ==
    IF s.hurt > 40 * S /\ s.emotional_distance > 50 * S THEN "hurt_withdrawn"
    ELSE IF s.resentment > 10 * S /\ s.resistance_mode /\ s.unanswered_message_count > 5
        THEN "passive_aggressive"
    ELSE IF s.resistance_mode /\ s.unanswered_message_count < 5 THEN "resistant"
    ELSE IF s.anxiety > 85 * S /\ s.loneliness > 80 * S THEN "desperate_anxious"
    ELSE IF s.attachment > 70 * S /\ s.hurt < 20 * S /\ s.emotional_distance < 30 * S
        THEN "warm_engaged"
    ELSE "neutral"

\* get_emotional_state_category()
GetEmotionalStateCategory(s) ==
    IF s.resentment > 10 * S /\ s.resistance_mode /\ s.unanswered_message_count > 5
        THEN "passive_aggressive"
    ELSE IF s.hurt > 40 * S /\ s.emotional_distance > 50 * S THEN "hurt_withdrawn"
    ELSE IF s.resistance_mode /\ s.unanswered_message_count < 5 THEN "resistant"
    ELSE IF s.anxiety > 85 * S /\ s.loneliness > 80 * S THEN "desperate_anxious"
    ELSE IF s.attachment > 70 * S /\ s.hurt < 20 * S /\ s.emotional_distance < 30 * S
        THEN "warm_engaged"
    ELSE "neutral"

\* a variant that needs resentment and pride together
ShouldSendPassiveAggressiveResponseBoth(s, t) ==
    IF ~s.resistance_mode THEN <<FALSE, "not_in_resistance_mode">>
    ELSE IF s.unanswered_message_count < 5 THEN <<FALSE, "not_enough_unanswered">>
    ELSE IF t - s.last_user_message_time < 5 THEN <<FALSE, "user_still_messaging">>
    ELSE IF s.resentment < 10 * S \/ s.pride < 35 * S
        THEN <<FALSE, "emotional_state_not_ready">>
    ELSE <<TRUE, "all_conditions_met">>

\* a variant that does not look at unanswered_message_count
ShouldSendPassiveAggressiveResponseUncounted(s, t) ==
    IF ~s.resistance_mode THEN <<FALSE, "not_in_resistance_mode">>
    ELSE IF t - s.last_user_message_time < 5 THEN <<FALSE, "user_still_messaging">>
    ELSE IF s.resentment < 10 * S /\ s.pride < 35 * S
        THEN <<FALSE, "emotional_state_not_ready">>
    ELSE <<TRUE, "all_conditions_met">>

\* should_send_passive_aggressive_response()
ShouldSendPassiveAggressiveResponse(s, t) ==
    IF ~s.resistance_mode THEN <<FALSE, "not_in_resistance_mode">>
    ELSE IF s.unanswered_message_count < 5 THEN <<FALSE, "not_enough_unanswered">>
    ELSE IF t - s.last_user_message_time < 5 THEN <<FALSE, "user_still_messaging">>
    ELSE IF s.resentment < 10 * S /\ s.pride < 35 * S
        THEN <<FALSE, "emotional_state_not_ready">>
    ELSE <<TRUE, "all_conditions_met">>

\* round(x, 1), in tenths
Round1(x) == Sgn(x) * ((Abs(x) + 5) \div 10)

\* the fields get_state_summary rounds
SummaryKeys ==
    {"valence", "attachment", "trust", "intimacy", "anxiety", "loneliness",
     "proactivity", "shame", "neuroticism", "attachment_style_anxiety",
     "attachment_style_avoidance", "hurt", "resentment", "pride",
     "boundary_assertion", "emotional_distance", "jealousy", "vulnerability",
     "passive_aggressive"}

\* get_state_summary()
GetStateSummary(s, t) ==
    [k \in SummaryKeys |-> Round1(s[k])] @@
    [ archetype |-> s.archetype,
      days_in_relationship |-> (t - s.relationship_start) \div 1440,
      total_interactions |-> s.total_interactions,
      shared_memories |-> s.shared_memories,
      hours_since_last_message |-> HoursSinceLast(s, t),
      unanswered_message_count |-> s.unanswered_message_count,
      resistance_mode |-> s.resistance_mode,
      emotional_state_category |-> GetEmotionalStateCategory(s) ]

---------------------------------------------------------------------------
(* Contexts, elapsed hours and noise draws the callers pass *)

EmptyCtx == [k \in {} |-> FALSE]

CtxMessage == [user_message_received |-> TRUE]

CtxCriticized ==
    [user_message_received |-> TRUE, user_criticized |-> TRUE,
     criticism_severity |-> S, user_message_pressure |-> 2 * S]

CtxSupportive == [user_response_to_vulnerability |-> "supportive"]

CtxDismissive == [user_response_to_vulnerability |-> "dismissive"]

CtxRival == [rival_mentioned |-> TRUE]

CtxSecretive == [secretive_behavior |-> TRUE]

CtxRivalSecretive == [rival_mentioned |-> TRUE, secretive_behavior |-> TRUE]

CtxCalmDown == [user_said_calm_down |-> TRUE]

Hour == S

\* the update calls of the general specification:
\* <<dt_hours, context, the draw of random.gauss(0, 1) scaled>>
Calls ==
    {<<0, EmptyCtx, S>>, <<24 * Hour, CtxMessage, 0>>, <<Hour, CtxCriticized, S>>, <<Hour, CtxSupportive, 0>>,
     <<24 * Hour, CtxDismissive, S>>, <<Hour, CtxRivalSecretive, 0>>}

InitArchetypes == {AnxiousAttached, Secure}

\* bounds of the general specification
MaxUpdates == 2

MaxClock == 425

MaxUnanswered == 1

---------------------------------------------------------------------------
(* Actions *)

\* update(dt_hours, context), ending with _save_state
DoUpdate(Cs, max) ==
    /\ steps < max
    /\ \E c \in Cs :
          /\ self' = Update(self, c[1], c[2], c[3], now)
          /\ lastOp' = [op |-> "update", dt |-> c[1], ctx |-> c[2], z |-> c[3]]
          /\ latched' = (latched /\ ~Get(c[2], "user_message_received", FALSE))
          /\ hist' = IF Get(c[2], "user_message_received", FALSE)
                     THEN Append(hist, now) ELSE hist
    /\ disk' = File(self')
    /\ ret' = "None"
    /\ steps' = steps + 1
    /\ UNCHANGED <<now, peer, run>>

\* wall-clock time passes
Tick(Ds, max) ==
    /\ \E d \in Ds : now + d <= max /\ now' = now + d
    /\ UNCHANGED <<self, disk, lastOp, ret, latched, hist, steps, peer, run>>

\* the caller records a message the AI sent, as the experiment harness does
AiSendsMessage(max) ==
    /\ self.unanswered_message_count < max
    /\ self' = [self EXCEPT !.last_ai_message_time = now,
                            !.unanswered_message_count = @ + 1]
    /\ lastOp' = [op |-> "ai_message"]
    /\ ret' = "None"
    /\ UNCHANGED <<disk, now, latched, hist, steps, peer, run>>

QueryShouldEnterResistanceMode ==
    /\ self' = EnterResistanceMode(self, now)
    /\ ret' = ShouldEnterResistanceMode(self, now)
    /\ lastOp' = [op |-> "should_enter_resistance_mode"]
    /\ latched' = (latched \/ ret')
    /\ UNCHANGED <<disk, now, hist, steps, peer, run>>

QueryShouldInitiateMessage ==
    /\ \E u \in {0, 50 * S} : ret' = ShouldInitiateMessage(self, now, u)
    /\ lastOp' = [op |-> "should_initiate_message"]
    /\ UNCHANGED <<self, disk, now, latched, hist, steps, peer, run>>

QueryGetFilterEffectiveness ==
    /\ ret' = GetFilterEffectiveness(self, now)
    /\ lastOp' = [op |-> "get_filter_effectiveness"]
    /\ UNCHANGED <<self, disk, now, latched, hist, steps, peer, run>>

QueryGetMessageTone ==
    /\ ret' = GetMessageTone(self)
    /\ lastOp' = [op |-> "get_message_tone"]
    /\ UNCHANGED <<self, disk, now, latched, hist, steps, peer, run>>

QueryShouldSendPassiveAggressiveResponse ==
    /\ ret' = ShouldSendPassiveAggressiveResponse(self, now)
    /\ lastOp' = [op |-> "should_send_passive_aggressive_response"]
    /\ UNCHANGED <<self, disk, now, latched, hist, steps, peer, run>>

QueryGetEmotionalStateCategory ==
    /\ ret' = GetEmotionalStateCategory(self)
    /\ lastOp' = [op |-> "get_emotional_state_category"]
    /\ UNCHANGED <<self, disk, now, latched, hist, steps, peer, run>>

QueryGetStateSummary ==
    /\ ret' = GetStateSummary(self, now)
    /\ lastOp' = [op |-> "get_state_summary"]
    /\ UNCHANGED <<self, disk, now, latched, hist, steps, peer, run>>

\* a new object is constructed for the same user_id and session_id
Restart(Archetypes) ==
    /\ \E a \in Archetypes : self' = Construct(a, now, disk)
    /\ lastOp' = [op |-> "init"]
    /\ ret' = "None"
    /\ latched' = FALSE
    /\ UNCHANGED <<disk, now, hist, steps, peer, run>>

\* the scenario's bookkeeping, idle outside the scenario specification
NoRun == [phase |-> "off"]

\* a new object, no state file, at the start of the clock
InitWith(Archetypes) ==
    /\ \E a \in Archetypes : self = InitVariables(a, 0)
    /\ disk = NoFile
    /\ now = 0
    /\ lastOp = [op |-> "init"]
    /\ ret = "None"
    /\ latched = FALSE
    /\ hist = << >>
    /\ steps = 0
    /\ peer = InitVariables(Secure, 0)
    /\ run = NoRun

Init == InitWith(InitArchetypes)

Next ==
    \/ DoUpdate(Calls, MaxUpdates)
    \/ AiSendsMessage(MaxUnanswered)
    \/ Tick({MaxClock}, MaxClock)
    \/ QueryShouldEnterResistanceMode
    \/ QueryShouldInitiateMessage
    \/ QueryGetFilterEffectiveness
    \/ QueryGetMessageTone
    \/ QueryShouldSendPassiveAggressiveResponse
    \/ QueryGetEmotionalStateCategory
    \/ QueryGetStateSummary
    \/ Restart(InitArchetypes)

Spec == Init /\ [][Next]_vars

---------------------------------------------------------------------------
(* Updates alone, three deep, from each row of the archetype table *)

AllArchetypes == {AnxiousAttached, Secure, Avoidant}

MaxJealousyUpdates == 3

InitJealousy == InitWith(AllArchetypes)

NextJealousy ==
    \/ DoUpdate(Calls, MaxJealousyUpdates)
    \/ Tick({MaxClock}, MaxClock)

SpecJealousy == InitJealousy /\ [][NextJealousy]_vars

---------------------------------------------------------------------------
(* Boundedness *)

UnitVariables ==
    {"attachment", "trust", "intimacy", "anxiety", "loneliness", "shame",
     "jealousy", "vulnerability", "proactivity", "hurt", "resentment", "pride",
     "boundary_assertion", "emotional_distance", "passive_aggressive"}

InRange(s) ==
    /\ s.valence >= -100 * S /\ s.valence <= 100 * S
    /\ \A v \in UnitVariables : s[v] >= 0 /\ s[v] <= 100 * S

\* C1: after every call to update, valence is in [-100,100] and each of the
\* fifteen other bounded variables is in [0,100]
C1_BoundedAfterUpdate == lastOp.op = "update" => InRange(self)

---------------------------------------------------------------------------
(* The no-op update *)

\* the fields the claim lists: everything but the last_update timestamp
SameButLastUpdate(s1, s2) == [s1 EXCEPT !.last_update = 0] = [s2 EXCEPT !.last_update = 0]

NoOpUpdateStep ==
    /\ steps' = steps + 1
    /\ lastOp'.op = "update"
    /\ lastOp'.dt = 0
    /\ DOMAIN lastOp'.ctx = {}

\* C5: update with elapsed_hours = 0 and an empty context leaves every state
\* variable, trait, counter, flag and buffer as it was before the call
C5_NoOpUpdate == [][NoOpUpdateStep => SameButLastUpdate(self, self')]_vars

C5_NoOpUpdateInRange == [][NoOpUpdateStep /\ InRange(self) => SameButLastUpdate(self, self')]_vars

---------------------------------------------------------------------------
(* The decision policies and the state *)

PolicyOps ==
    {"should_initiate_message", "get_filter_effectiveness", "get_message_tone",
     "should_enter_resistance_mode", "should_send_passive_aggressive_response",
     "get_emotional_state_category", "get_state_summary"}

\* C4, as stated: calling any decision policy leaves every field of the
\* relationship state unchanged
C4_PoliciesReadOnly == [][lastOp'.op \in PolicyOps => self' = self]_vars

\* C4, amended: every decision policy but should_enter_resistance_mode leaves
\* every field and the saved snapshot unchanged; should_enter_resistance_mode
\* changes no field but resistance_mode, and that only from false to true; the
\* state is changed only by update, by construction, by the caller's own
\* bookkeeping and by that latch
C4_PoliciesFrame ==
    [][/\ lastOp'.op \in PolicyOps \ {"should_enter_resistance_mode"} => self' = self
       /\ lastOp'.op \in PolicyOps => disk' = disk
       /\ lastOp'.op = "should_enter_resistance_mode" =>
             /\ [self' EXCEPT !.resistance_mode = self.resistance_mode] = self
             /\ self.resistance_mode => self'.resistance_mode
       /\ self' # self =>
             lastOp'.op \in {"update", "init", "ai_message",
                             "should_enter_resistance_mode"}]_vars

\* C4: should_enter_resistance_mode has returned true and set the latch on a
\* state whose update left it clear
C4_LatchSetByQuery ==
    /\ lastOp.op = "should_enter_resistance_mode"
    /\ latched
    /\ self.resistance_mode
    /\ disk.exists
    /\ ~disk.state.resistance_mode

---------------------------------------------------------------------------
(* The snapshot round trip *)

\* C10: saving a state and loading it back restores every persisted field to
\* the value it had when saved
\* the value it had when saved, and a new object constructed over the snapshot
\* the last update wrote is in the state that update left
C10_RoundTrip ==
    /\ LoadState(SaveState(self)) = self
    /\ lastOp.op = "update" => Construct(Avoidant, now, disk) = self

\* C10: a snapshot was written with a message of the AI on record, with
\* timestamps off the full hour and with both buffers filled
C10_SavedWithAiMessage ==
    /\ lastOp.op = "update"
    /\ disk.exists
    /\ self.last_ai_message_time # None
    /\ self.last_ai_message_time % 60 # 0
    /\ Len(self.user_message_timestamps) >= 1
    /\ self.user_message_timestamps[1] % 60 # 0

\* C10: a snapshot was written with no message of the AI on record, with
\* the latch set and with a negative value
C10_SavedWithNull ==
    /\ lastOp.op = "update"
    /\ disk.exists
    /\ self.last_ai_message_time = None
    /\ self.resistance_mode
    /\ self.emotional_distance < 0

---------------------------------------------------------------------------
(* Jealousy triggers *)

\* the elapsed hours tried: 0.1 h, 0.5 h, 1 h and 6 h
JealousyHours == {Hour \div 10, Hour \div 2, Hour, 6 * Hour}

\* the increase of jealousy over one update of the present state
JealousyIncrease(dt, ctx) == Update(self, dt, ctx, 0, now).jealousy - self.jealousy

\* C8, as stated: firing rival_mentioned and secretive_behavior together
\* increases jealousy by strictly more than firing either alone
C8_StrictlyMore ==
    \A dt \in JealousyHours :
        /\ JealousyIncrease(dt, CtxRivalSecretive) > JealousyIncrease(dt, CtxRival)
        /\ JealousyIncrease(dt, CtxRivalSecretive) > JealousyIncrease(dt, CtxSecretive)

\* C8, amended: the increase with both triggers is never smaller than with
\* either alone, and strictly larger whenever the update firing that trigger
\* alone leaves jealousy below 100
C8_MoreUnlessSaturated ==
    \A dt \in JealousyHours : \A ctx \in {CtxRival, CtxSecretive} :
        /\ JealousyIncrease(dt, CtxRivalSecretive) >= JealousyIncrease(dt, ctx)
        /\ self.jealousy + JealousyIncrease(dt, ctx) < 100 * S =>
              JealousyIncrease(dt, CtxRivalSecretive) > JealousyIncrease(dt, ctx)

\* C8: after an update, a state where for some elapsed time either trigger
\* alone leaves jealousy below 100 and for another it reaches 100
C8_BothCases ==
    /\ lastOp.op = "update"
    /\ \E dt \in JealousyHours :
          /\ self.jealousy + JealousyIncrease(dt, CtxRival) < 100 * S
          /\ self.jealousy + JealousyIncrease(dt, CtxSecretive) < 100 * S
          /\ JealousyIncrease(dt, CtxRival) > 0
    /\ \E dt \in JealousyHours :
          self.jealousy + JealousyIncrease(dt, CtxSecretive) = 100 * S

---------------------------------------------------------------------------
(* The resistance latch: a criticism, long quiet hours and bursts of messages *)

LatchCalls ==
    {<<Hour, CtxCriticized, 0>>, <<18 * Hour, CtxSupportive, 0>>, <<0, CtxMessage, 0>>}

MaxLatchUpdates == 8

NextLatch ==
    \/ DoUpdate(LatchCalls, MaxLatchUpdates)
    \/ Tick({MaxClock}, MaxClock)
    \/ QueryShouldEnterResistanceMode
    \/ QueryGetEmotionalStateCategory

SpecLatch == Init /\ [][NextLatch]_vars

\* the three triggers, as documented
Trigger1 == self.hurt > 20 * S /\ CalculateMessagePressure(self, now, 10) > S \div 2

Trigger2 == self.hurt > 25 * S /\ self.resentment > 10 * S

Trigger3 == self.emotional_distance > 60 * S

UserMessageUpdateStep ==
    /\ steps' = steps + 1
    /\ lastOp'.op = "update"
    /\ Get(lastOp'.ctx, "user_message_received", FALSE)

\* C2: once should_enter_resistance_mode has returned true, and until an
\* update with user_message_received is processed, every call to it
\* returns true (latched: it returned true since the last such update)
C2_LatchHolds ==
    lastOp.op = "should_enter_resistance_mode" /\ latched => ret = TRUE

\* C2: the query returns true on a latched engine none of whose triggers
\* holds any more, after an update without user message
C2_LatchedWithoutTrigger ==
    /\ lastOp.op = "should_enter_resistance_mode"
    /\ ret = TRUE
    /\ latched
    /\ ~Trigger1 /\ ~Trigger2 /\ ~Trigger3
    /\ self.last_update > self.last_user_message_time

\* C3: resistance_mode changes from false to true only when one of the
\* three triggers holds, and from true to false only inside an update whose
\* context has user_message_received
C3_Transitions ==
    [][/\ ~self.resistance_mode /\ self'.resistance_mode =>
             Trigger1 \/ Trigger2 \/ Trigger3
       /\ self.resistance_mode /\ ~self'.resistance_mode =>
             UserMessageUpdateStep]_vars

\* C3: resistance was entered on message pressure alone, six messages
\* inside ten minutes on top of an earlier one
C3_EnteredOnPressure ==
    /\ lastOp.op = "should_enter_resistance_mode"
    /\ self.resistance_mode
    /\ Trigger1 /\ ~Trigger2 /\ ~Trigger3
    /\ Len(self.user_message_timestamps) >= 7

---------------------------------------------------------------------------
(* The rolling buffers: more messages than the buffers hold *)

BufferCalls == {<<0, CtxMessage, 0>>}

MaxMessages == 102

\* the clock moves twice, by an hour and a minute each time
BufferTick == 61

MaxBufferClock == 2 * BufferTick

NextBuffer ==
    \/ DoUpdate(BufferCalls, MaxMessages)
    \/ Tick({BufferTick}, MaxBufferClock)

InitBuffer == InitWith({AnxiousAttached})

SpecBuffer == InitBuffer /\ [][NextBuffer]_vars

\* the last hundred of the arrival times of all user messages, in order
MostRecent == SubSeq(hist, Max(1, Len(hist) - 99), Len(hist))

\* C6: each rolling buffer holds at most 100 entries, and they are the most
\* recent ones in arrival order: the arrival times and their hours of day
C6_Buffers ==
    /\ Len(self.user_message_timestamps) <= 100
    /\ Len(self.user_interaction_hours) <= 100
    /\ self.user_message_timestamps = MostRecent
    /\ self.user_interaction_hours = [i \in 1..Len(MostRecent) |-> (MostRecent[i] \div 60) % 24]

\* C6: 102 messages were recorded and the two evicted ones arrived at an
\* earlier time and hour than everything the buffers still hold
C6_OldestEvicted ==
    /\ Len(hist) = 102
    /\ Len(self.user_message_timestamps) = 100
    /\ hist[2] < self.user_message_timestamps[1]
    /\ self.user_interaction_hours[1] < self.user_interaction_hours[100]

---------------------------------------------------------------------------
(* The silence experiment: a build phase of daily user messages, then days  *)
(* of updates without user message, run on an anxious_attached engine       *)
(* (self) and on a secure engine (peer) side by side                        *)

\* days of daily messages before the silence, and days of silence
BuildDays == 30

SilenceDays == 14

ScenarioDraws == {0, S}

\* a day is one update of 24 hours or four of 6 hours; the wall clock either
\* stands still, as in a simulation, or follows the elapsed hours; both
\* engines see the same noise draws
InitScenario ==
    /\ self = InitVariables(AnxiousAttached, 0)
    /\ peer = InitVariables(Secure, 0)
    /\ disk = NoFile
    /\ now = 0
    /\ lastOp = [op |-> "init"]
    /\ ret = "None"
    /\ latched = FALSE
    /\ hist = << >>
    /\ steps = 0
    /\ \E build \in {BuildDays, 2 * BuildDays}, msgs \in {1, 4},
          chunk \in {6 * Hour, 24 * Hour}, realtime \in BOOLEAN :
          run = [phase |-> "build", build |-> build, msgs |-> msgs,
                 chunk |-> chunk, realtime |-> realtime,
                 day |-> 0, k |-> 0, silent |-> 0,
                 onset_anxiety |-> 0, onset_attachment |-> 0,
                 pre_self |-> 0, pre_peer |-> 0,
                 peak_self |-> 0, peak_peer |-> 0]

\* wall-clock minutes that pass with dt when the clock follows the updates
Minutes(dt) == IF run.realtime THEN (dt * 60) \div S ELSE 0

\* one update of an active day: update(24 / msgs_today, {user_message_received})
ScenarioMessage ==
    /\ run.phase = "build"
    /\ LET dt == (24 * Hour) \div run.msgs
           last == run.k + 1 = run.msgs
           day == IF last THEN run.day + 1 ELSE run.day
       IN  /\ \E z \in ScenarioDraws :
                /\ self' = Update(self, dt, CtxMessage, z, now)
                /\ peer' = Update(peer, dt, CtxMessage, z, now)
                /\ lastOp' = [op |-> "update", dt |-> dt, ctx |-> CtxMessage, z |-> z]
           /\ now' = now + Minutes(dt)
           /\ run' = IF day = run.build
                     THEN [run EXCEPT !.phase = "silence", !.day = 0, !.k = 0,
                                      !.onset_anxiety = self'.anxiety,
                                      !.onset_attachment = self'.attachment,
                                      !.pre_self = self'.anxiety,
                                      !.pre_peer = peer'.anxiety]
                     ELSE [run EXCEPT !.day = day, !.k = IF last THEN 0 ELSE @ + 1]
    /\ disk' = File(self')
    /\ ret' = "None"
    /\ latched' = FALSE
    /\ hist' = Append(hist, now)
    /\ UNCHANGED steps

\* one update of a silent day: update(chunk, {}); the daily snapshot keeps
\* the peaks
ScenarioSilence ==
    /\ run.phase = "silence"
    /\ LET dt == run.chunk
           last == run.k + 1 = (24 * Hour) \div run.chunk
           day == IF last THEN run.day + 1 ELSE run.day
       IN  /\ \E z \in ScenarioDraws :
                /\ self' = Update(self, dt, EmptyCtx, z, now)
                /\ peer' = Update(peer, dt, EmptyCtx, z, now)
                /\ lastOp' = [op |-> "update", dt |-> dt, ctx |-> EmptyCtx, z |-> z]
           /\ now' = now + Minutes(dt)
           /\ run' = [run EXCEPT
                        !.phase = IF day = SilenceDays THEN "done" ELSE @,
                        !.day = day,
                        !.k = IF last THEN 0 ELSE @ + 1,
                        !.silent = @ + 1,
                        !.peak_self = IF last THEN Max(@, self'.anxiety) ELSE @,
                        !.peak_peer = IF last THEN Max(@, peer'.anxiety) ELSE @]
    /\ disk' = File(self')
    /\ ret' = "None"
    /\ UNCHANGED <<latched, hist, steps>>

NextScenario ==
    \/ ScenarioMessage
    \/ ScenarioSilence

SpecScenario == InitScenario /\ [][NextScenario]_vars

\* the run the TERROR sentence describes: 30 daily updates with a user
\* message, then updates of 24 hours without one, from a bonded, calm engine
TerrorRun ==
    /\ run.build = BuildDays /\ run.msgs = 1 /\ run.chunk = 24 * Hour
    /\ run.phase = "silence"
    /\ run.onset_anxiety < 25 * S
    /\ run.onset_attachment > 85 * S

\* C7: each of the 7 updates of 24 hours without user message that follow
\* the 30 daily messages strictly increases anxiety and strictly increases
\* loneliness, and anxiety after the 7th is at least 1.5 times its value at
\* silence onset
C7_TerrorEffect ==
    [][TerrorRun /\ run.silent < 7 /\ run'.silent = run.silent + 1 =>
          /\ self'.anxiety > self.anxiety
          /\ self'.loneliness > self.loneliness
          /\ run'.silent = 7 => 2 * self'.anxiety >= 3 * run.onset_anxiety]_vars

\* C7, the first silent update alone: it does raise both variables
C7_FirstSilentUpdate ==
    [][TerrorRun /\ run.silent = 0 /\ run'.silent = 1 =>
          /\ self'.anxiety > self.anxiety
          /\ self'.loneliness > self.loneliness]_vars

\* C9: when the scenario is over, the secure engine's peak anxiety during
\* the silence is strictly smaller than the anxious_attached engine's, and
\* so is its growth from the value just before the silence
C9_SecureCalmer ==
    run.phase = "done" =>
        /\ run.peak_peer < run.peak_self
        /\ run.peak_peer - run.pre_peer < run.peak_self - run.pre_self
---------------------------------------------------------------------------
(* Construction from a snapshot that is incomplete or cut off *)

\* the keys _load_state reads with state[key]
RequiredKeys ==
    {"archetype", "last_update", "last_user_message_time", "relationship_start",
     "total_interactions", "shared_memories", "valence", "attachment", "trust",
     "intimacy", "anxiety", "loneliness", "proactivity", "shame", "neuroticism",
     "attachment_style_anxiety", "attachment_style_avoidance",
     "neuroticism_baseline", "proactivity_baseline"}

\* the keys _load_state reads with state.get(key, default)
OptionalKeys ==
    {"hurt", "resentment", "pride", "boundary_assertion", "emotional_distance",
     "jealousy", "vulnerability", "passive_aggressive", "user_interaction_hours",
     "user_message_timestamps", "unanswered_message_count",
     "last_ai_message_time", "resistance_mode"}

\* the state file as open(state_file, 'w') leaves it before json.dump has
\* written: it exists and holds no JSON document
Truncated == [exists |-> TRUE, state |-> << >>, truncated |-> TRUE]

IsTruncated(file) == "truncated" \in DOMAIN file

\* the exception __init__ lets through, "" when it returns: json.load
\* raises on text that is no JSON document, state[key] on an absent key
ConstructError(file) ==
    IF ~file.exists THEN ""
    ELSE IF IsTruncated(file) THEN "JSONDecodeError"
    ELSE IF ~(RequiredKeys \subseteq DOMAIN file.state) THEN "KeyError"
    ELSE ""

\* archetype names passed to the constructor; the last is the empty string
ArchetypeNames ==
    {AnxiousAttached, Secure, Avoidant, SecureAttached, FearfulAvoidant,
     InsecureAvoidant, Stoic, << >>}

\* the names a later constructor call for the same key passes
ReconstructNames == {Secure, InsecureAvoidant}

ConstructCalls == {<<Hour, CtxCriticized, S>>, <<24 * Hour, CtxMessage, 0>>}

MaxConstructUpdates == 1

\* a snapshot written by a version of _save_state that had one key less
LegacySnapshot ==
    /\ disk.exists /\ ~IsTruncated(disk)
    /\ DOMAIN disk.state = RequiredKeys \cup OptionalKeys
    /\ \E k \in DOMAIN disk.state :
          disk' = [disk EXCEPT !.state = [j \in DOMAIN disk.state \ {k} |-> disk.state[j]]]
    /\ UNCHANGED <<self, now, lastOp, ret, latched, hist, steps, peer, run>>

\* _save_state is interrupted between open and json.dump
InterruptedSave ==
    /\ disk.exists /\ ~IsTruncated(disk)
    /\ disk' = Truncated
    /\ UNCHANGED <<self, now, lastOp, ret, latched, hist, steps, peer, run>>

\* PersonalityDynamics(user_id, archetype, session_id) for the same key, on
\* whatever the state file holds; when __init__ raises there is no new
\* object and the caller is left with the old one
Reconstruct(Archetypes) ==
    /\ \E a \in Archetypes :
          /\ lastOp' = [op |-> "construct", archetype |-> a, t |-> now, file |-> disk]
          /\ self' = IF ConstructError(disk) = "" THEN Construct(a, now, disk) ELSE self
    /\ ret' = IF ConstructError(disk) = "" THEN "None" ELSE ConstructError(disk)
    /\ latched' = (latched /\ ConstructError(disk) # "")
    /\ UNCHANGED <<disk, now, hist, steps, peer, run>>

InitConstruct == InitWith(ArchetypeNames)

NextConstruct ==
    \/ DoUpdate(ConstructCalls, MaxConstructUpdates)
    \/ Tick({MaxClock}, MaxClock)
    \/ LegacySnapshot
    \/ InterruptedSave
    \/ Reconstruct(ReconstructNames)

SpecConstruct == InitConstruct /\ [][NextConstruct]_vars

\* the snapshot of a freshly initialized object: every key with the value
\* __init__ gives its field before _load_state runs
FreshSnapshot(archetype, t) == SaveState(InitVariables(archetype, t))

\* C11: constructing from a parseable snapshot, whatever keys it lacks,
\* returns without error; each field whose key is present has the
\* snapshot's value and each field whose key is absent has the value
\* initialization gives it
C11_LoadToleratesAbsentKeys ==
    lastOp.op = "construct" /\ lastOp.file.exists /\ ~IsTruncated(lastOp.file) =>
        /\ ret = "None"
        /\ self = LoadState(lastOp.file.state @@ FreshSnapshot(lastOp.archetype, lastOp.t))

\* C11, the keys read with a default only: these may be absent
C11_OptionalKeysDefault ==
    /\ lastOp.op = "construct" /\ lastOp.file.exists /\ ~IsTruncated(lastOp.file)
    /\ RequiredKeys \subseteq DOMAIN lastOp.file.state
    => /\ ret = "None"
       /\ self = LoadState(lastOp.file.state @@ FreshSnapshot(lastOp.archetype, lastOp.t))

\* C12: constructing on a state file that holds no JSON document returns
\* without error and leaves the object as initialization without a state
\* file leaves it
C12_CorruptSnapshotReinitializes ==
    lastOp.op = "construct" /\ lastOp.file.exists /\ IsTruncated(lastOp.file) =>
        /\ ret = "None"
        /\ self = InitVariables(lastOp.archetype, lastOp.t)

\* the six fields _init_variables sets by archetype, as plain numbers
TraitRow(s) ==
    <<s.neuroticism, s.attachment_style_anxiety, s.attachment_style_avoidance,
      s.anxiety, s.loneliness, s.proactivity>>

Scaled(row) == [i \in DOMAIN row |-> row[i] * S]

\* C13: after initialization without a state file the six fields are the
\* row of the first rule that matches the archetype name (exact
\* anxious_attached, exact secure, exact avoidant, containing 'secure',
\* containing 'avoidant', default), and the two baselines equal the initial
\* neuroticism and proactivity
C13_ArchetypeRows ==
    (lastOp.op = "init" \/ (lastOp.op = "construct" /\ ~lastOp.file.exists)) =>
        /\ TraitRow(self) =
             Scaled(CASE self.archetype = AnxiousAttached -> <<70, 80, 20, 40, 50, 70>>
                      [] self.archetype = Secure -> <<40, 30, 30, 20, 30, 50>>
                      [] self.archetype = Avoidant -> <<35, 25, 75, 15, 20, 30>>
                      [] self.archetype \notin {AnxiousAttached, Secure, Avoidant}
                           /\ Contains(self.archetype, Secure) -> <<40, 30, 30, 20, 30, 50>>
                      [] self.archetype \notin {AnxiousAttached, Secure, Avoidant}
                           /\ ~Contains(self.archetype, Secure)
                           /\ Contains(self.archetype, Avoidant) -> <<35, 25, 75, 15, 20, 30>>
                      [] OTHER -> <<45, 40, 40, 25, 35, 50>>)
        /\ self.neuroticism_baseline = self.neuroticism
        /\ self.proactivity_baseline = self.proactivity

\* C13 on a name that contains both 'secure' and 'avoidant': the secure row
C13_BothSubstrings ==
    /\ lastOp.op = "construct" /\ ~lastOp.file.exists
    /\ self.archetype = InsecureAvoidant
    /\ self.neuroticism = 40 * S
    /\ self.attachment_style_avoidance = 30 * S

---------------------------------------------------------------------------
(* The two gated decisions on engines loaded from snapshots whose values   *)
(* lie on either side of every threshold the decisions test                *)

\* a snapshot of an engine that has been running: the fields the two
\* decisions read, each below, at or above its thresholds
PolicySnapshots ==
    { SaveState([InitVariables(Secure, 0) EXCEPT
                    !.resistance_mode = v[1], !.unanswered_message_count = v[2],
                    !.resentment = v[3], !.pride = v[4], !.hurt = v[5],
                    !.emotional_distance = v[6], !.anxiety = v[7][1],
                    !.loneliness = v[7][2], !.attachment = v[8],
                    !.last_ai_message_time = 0]) :
      v \in BOOLEAN \X {4, 5, 6} \X {10 * S - 1, 10 * S, 10 * S + 1}
            \X {35 * S - 1, 35 * S} \X {20 * S - 1, 20 * S, 40 * S, 40 * S + 1}
            \X {30 * S - 1, 30 * S, 50 * S, 50 * S + 1}
            \X {<<85 * S, 80 * S + 1>>, <<85 * S + 1, 80 * S>>, <<85 * S + 1, 80 * S + 1>>}
            \X {70 * S, 70 * S + 1} }

\* minutes after the last user message at which the engine is loaded
PolicyStart == 4

MaxPolicyClock == PolicyStart + 1

InitPolicy ==
    /\ \E snapshot \in PolicySnapshots :
          /\ disk = [exists |-> TRUE, state |-> snapshot]
          /\ self = Construct(Secure, PolicyStart, disk)
    /\ now = PolicyStart
    /\ lastOp = [op |-> "init"]
    /\ ret = "None"
    /\ latched = FALSE
    /\ hist = << >>
    /\ steps = 0
    /\ peer = InitVariables(Secure, 0)
    /\ run = NoRun

NextPolicy ==
    \/ Tick({1}, MaxPolicyClock)
    \/ QueryShouldSendPassiveAggressiveResponse
    \/ QueryGetEmotionalStateCategory

SpecPolicy == InitPolicy /\ [][NextPolicy]_vars

\* a step that is a call of should_send_passive_aggressive_response
PassiveAggressiveQueryStep ==
    /\ lastOp'.op = "should_send_passive_aggressive_response"
    /\ lastOp.op # "should_send_passive_aggressive_response"

C15_FirstMatchWins ==
    lastOp.op = "get_emotional_state_category" =>
        LET r1 == self.resentment > 10 * S /\ self.resistance_mode
                     /\ self.unanswered_message_count > 5
            r2 == self.hurt > 40 * S /\ self.emotional_distance > 50 * S
            r3 == self.resistance_mode /\ self.unanswered_message_count < 5
            r4 == self.anxiety > 85 * S /\ self.loneliness > 80 * S
            r5 == self.attachment > 70 * S /\ self.hurt < 20 * S
                     /\ self.emotional_distance < 30 * S
        IN  /\ r1 => ret = "passive_aggressive"
            /\ ~r1 /\ r2 => ret = "hurt_withdrawn"
            /\ ~r1 /\ ~r2 /\ r3 => ret = "resistant"
            /\ ~r1 /\ ~r2 /\ ~r3 /\ r4 => ret = "desperate_anxious"
            /\ ~r1 /\ ~r2 /\ ~r3 /\ ~r4 /\ r5 => ret = "warm_engaged"
            /\ ~r1 /\ ~r2 /\ ~r3 /\ ~r4 /\ ~r5 => ret = "neutral"

\* C15 where the first two rules both match
C15_TwoRulesMatch ==
    /\ lastOp.op = "get_emotional_state_category"
    /\ ret = "passive_aggressive"
    /\ self.hurt > 40 * S /\ self.emotional_distance > 50 * S
    /\ self.anxiety > 85 * S /\ self.loneliness > 80 * S

---------------------------------------------------------------------------
(* The projections *)

ToneKeys == {"positivity", "warmth", "assertiveness", "formality", "vulnerability"}

\* C16: get_message_tone returns, without raising, a tone vector whose
\* five components each lie in [0,1]
C16_ToneInUnitRange ==
    lastOp.op = "get_message_tone" =>
        /\ ret # "AttributeError"
        /\ \A k \in ToneKeys : ret[k] \in 0..S

\* the update calls before the projections are read
ProjectionCalls ==
    {<<24 * Hour, CtxMessage, 0>>, <<24 * Hour, CtxDismissive, S>>,
     <<Hour, CtxCalmDown, 0>>}

MaxProjectionUpdates == 3

\* the clock moves in steps of 24 hours and 1 minute, beyond 72 hours
ProjectionTick == 1441

MaxProjectionTicks == 4

NextProjection ==
    \/ DoUpdate(ProjectionCalls, MaxProjectionUpdates)
    \/ Tick({ProjectionTick}, MaxProjectionTicks * ProjectionTick)
    \/ QueryGetFilterEffectiveness
    \/ QueryShouldInitiateMessage

SpecProjection == Init /\ [][NextProjection]_vars

\* a step that is a call of get_filter_effectiveness
FilterQueryStep ==
    /\ lastOp'.op = "get_filter_effectiveness"
    /\ lastOp.op # "get_filter_effectiveness"

\* 10 * (0.3 anxiety + 0.4 loneliness + 0.3 attachment_style_anxiety)
Desperation10(s) == 3 * s.anxiety + 4 * s.loneliness + 3 * s.attachment_style_anxiety

\* minutes since the last user message, capped at 72 hours
CappedMinutes(s, t) == Min(t - s.last_user_message_time, 72 * 60)

\* C17: get_filter_effectiveness returns a value in [0,1] equal to
\* 1 - ((0.3 anxiety + 0.4 loneliness + 0.3 attachment_style_anxiety) / 100)
\* * min(hours / 72, 1), up to 0.03 for the rounding of the two-digit
\* arithmetic, and exactly 1 when no time has passed since the last user
\* message
C17_FilterFormula ==
    [][FilterQueryStep =>
          /\ ret' \in 0..S
          /\ Abs((S - ret') * (1000 * 72 * 60)
                    - Desperation10(self) * CappedMinutes(self, now))
                <= 3 * (1000 * 72 * 60)
          /\ now = self.last_user_message_time => ret' = S]_vars

\* C17 beyond the cap: more than 72 hours of silence
C17_BeyondCap ==
    /\ lastOp.op = "get_filter_effectiveness"
    /\ now - self.last_user_message_time > 72 * 60
    /\ ret < S \div 2
    /\ ret > 0

\* a step that is a call of should_initiate_message
InitiateQueryStep ==
    /\ lastOp'.op = "should_initiate_message"
    /\ lastOp.op # "should_initiate_message"

\* the claimed probability, scaled by S * S
ClaimedProbability(s, t) ==
    LET anxiety_mult == IF t - s.last_user_message_time > 24 * 60
                        THEN S + Div(s.anxiety, 50) ELSE S
        shame_inhibition == IF s.shame > 60 * S /\ t - s.last_user_message_time < 12 * 60
                            THEN S \div 10 ELSE S
    IN  Min(30 * S,
            MulDiv(MulDiv(MulDiv(MulDiv(Div(s.proactivity, 50), S + Div(s.attachment, 100), S),
                                 anxiety_mult, S),
                          S + Div(s.loneliness, 100), S),
                   shame_inhibition, S))

\* C18: the probability returned by should_initiate_message lies in
\* [0, 0.3] and equals min(0.3, 0.01 (proactivity/50) (1 + attachment/100)
\* anxiety_mult (1 + loneliness/100) shame_inhibition)
C18_ProbabilityRange ==
    [][InitiateQueryStep =>
          /\ ret'.prob \in 0..(30 * S)
          /\ ret'.prob = ClaimedProbability(self, now)]_vars

\* C18 without the range: the returned probability is the claimed product
C18_ProbabilityFormula ==
    [][InitiateQueryStep => ret'.prob = ClaimedProbability(self, now)]_vars

---------------------------------------------------------------------------
(* Two callers in update on the same object.  The recording of a user      *)
(* message is followed statement by statement, `total_interactions += 1'   *)
(* as the read and the write it consists of; the rest of update, with      *)
(* _save_state, is one step.                                               *)

Callers == {1, 2}

RaceCalls == {<<Hour, CtxMessage, 0>>, <<Hour, EmptyCtx, 0>>}

\* update calls per caller
MaxRaceCalls == 1

\* a variant that counts every update, with or without a user message
RaceBranchAlways(ctx) == "read"

\* if user_message_received: where the caller goes after the context is read
RaceBranch(ctx) ==
    IF Get(ctx, "user_message_received", FALSE) THEN "read" ELSE "dynamics"

InitRace ==
    /\ \E a \in InitArchetypes : self = InitVariables(a, 0)
    /\ disk = NoFile /\ now = 0 /\ lastOp = [op |-> "init"] /\ ret = "None"
    /\ latched = FALSE /\ hist = << >> /\ steps = 0
    /\ peer = InitVariables(Secure, 0)
    /\ \E serialized \in BOOLEAN :
          run = [phase |-> "race", serialized |-> serialized, lock |-> 0,
                 pc |-> [i \in Callers |-> "idle"],
                 call |-> [i \in Callers |-> <<0, EmptyCtx, 0>>],
                 reg |-> [i \in Callers |-> 0],
                 calls |-> [i \in Callers |-> 0],
                 processed |-> 0]

\* a caller enters update; a serializing caller waits for the lock first
RaceEnter(i) ==
    /\ run.pc[i] = "idle" /\ run.calls[i] < MaxRaceCalls
    /\ run.serialized => run.lock = 0
    /\ \E c \in RaceCalls :
          run' = [run EXCEPT !.pc[i] = RaceBranch(c[2]), !.call[i] = c,
                             !.calls[i] = @ + 1,
                             !.lock = IF run.serialized THEN i ELSE 0]
    /\ UNCHANGED <<self, disk, now, lastOp, ret, latched, hist, steps, peer>>

\* self.total_interactions += 1, the read
RaceReadCount(i) ==
    /\ run.pc[i] = "read"
    /\ run' = [run EXCEPT !.pc[i] = "write", !.reg[i] = self.total_interactions]
    /\ UNCHANGED <<self, disk, now, lastOp, ret, latched, hist, steps, peer>>

\* self.total_interactions += 1, the write
RaceWriteCount(i) ==
    /\ run.pc[i] = "write"
    /\ self' = [self EXCEPT !.total_interactions = run.reg[i] + 1]
    /\ run' = [run EXCEPT !.pc[i] = "record"]
    /\ UNCHANGED <<disk, now, lastOp, ret, latched, hist, steps, peer>>

\* the timestamps, the buffers and the reset of the latch
RaceRecord(i) ==
    /\ run.pc[i] = "record"
    /\ self' = [RecordMessage(self, run.call[i][2], now) EXCEPT
                   !.total_interactions = self.total_interactions]
    /\ hist' = Append(hist, now)
    /\ latched' = FALSE
    /\ run' = [run EXCEPT !.pc[i] = "dynamics"]
    /\ UNCHANGED <<disk, now, lastOp, ret, steps, peer>>

\* the dynamics, last_update and _save_state; the caller leaves update
RaceDynamics(i) ==
    /\ run.pc[i] = "dynamics"
    /\ self' = UpdateAfterRecording(self, run.call[i][1], run.call[i][2],
                                    run.call[i][3], now)
    /\ disk' = File(self')
    /\ lastOp' = [op |-> "update", dt |-> run.call[i][1], ctx |-> run.call[i][2],
                  z |-> run.call[i][3]]
    /\ ret' = "None"
    /\ steps' = steps + 1
    /\ run' = [run EXCEPT
                 !.pc[i] = "idle", !.lock = 0,
                 !.processed = @ + (IF Get(run.call[i][2], "user_message_received", FALSE)
                                    THEN 1 ELSE 0)]
    /\ UNCHANGED <<now, latched, hist, peer>>

NextRace ==
    \E i \in Callers :
        \/ RaceEnter(i)
        \/ RaceReadCount(i)
        \/ RaceWriteCount(i)
        \/ RaceRecord(i)
        \/ RaceDynamics(i)

SpecRace == InitRace /\ [][NextRace]_vars

AllIdle == \A i \in Callers : run.pc[i] = "idle"

\* C19: when the callers serialize their update calls, total_interactions
\* equals the number of user-message updates processed; without
\* serialization it is never more than that number (and at least 1 once
\* one was processed)
C19_SerializedCount ==
    AllIdle =>
        /\ run.serialized => self.total_interactions = run.processed
        /\ self.total_interactions <= run.processed
        /\ run.processed >= 1 => self.total_interactions >= 1

\* C19, the final state no serial order produces: two user-message updates
\* processed without serialization, total_interactions raised by 1
C19_LostUpdate ==
    /\ AllIdle /\ ~run.serialized
    /\ run.processed = 2
    /\ self.total_interactions = 1
    /\ Len(self.user_message_timestamps) = 2

---------------------------------------------------------------------------
(* Two engines, for two different (user_id, session_id) keys, in one       *)
(* process: each has its own fields; the state files live in one           *)
(* directory and the module `random' has one generator.                    *)

\* user_id and session_id values, as character strings; the empty string
\* stands for session_id = None as well
IdA == <<"a">>
IdB == <<"b">>
IdAB == <<"a", "_", "b">>
IdBC == <<"b", "_", "c">>
IdC == <<"c">>
IdNone == << >>

\* self.session_id = session_id if session_id else "default"
SessionId(session_id) ==
    IF session_id = << >> THEN <<"d","e","f","a","u","l","t">> ELSE session_id

\* the name of state_file: f"{user_id}_{self.session_id}_dynamics.json"
StateFile(key) ==
    key[1] \o <<"_">> \o SessionId(key[2])
           \o <<"_","d","y","n","a","m","i","c","s",".","j","s","o","n">>

\* the relationship keys the two engines are constructed for
PairKeys == {<<IdAB, IdC>>, <<IdA, IdBC>>, <<IdA, IdC>>, <<IdB, IdNone>>}

PairCalls == {<<Hour, CtxMessage>>, <<24 * Hour, EmptyCtx>>}

\* what the one generator of the module random returns, call after call:
\* random.gauss(0, 1) scaled by S
RandomStream == <<0, S, S, 0>>

Gauss(rng) == RandomStream[rng]

\* random.random(), scaled by S * S, from the same generator
Random(rng) == 50 * RandomStream[rng]

NextRng(rng) == (rng % Len(RandomStream)) + 1

\* operations on the two engines together
MaxPairOps == 3

InitPair ==
    /\ self = InitVariables(AnxiousAttached, 0)
    /\ peer = InitVariables(Secure, 0)
    /\ disk = NoFile /\ now = 0 /\ lastOp = [op |-> "init"] /\ ret = "None"
    /\ latched = FALSE /\ hist = << >> /\ steps = 0
    /\ \E k1 \in PairKeys : \E k2 \in PairKeys \ {k1} :
          run = [phase |-> "pair", keys |-> <<k1, k2>>,
                 dir |-> [f \in {StateFile(k) : k \in PairKeys} |-> NoFile],
                 rng |-> 1, ops |-> 0]

\* the fields of engine e: self is the first, peer the second
Engine(e) == IF e = 1 THEN self ELSE peer

PairArchetype(e) == IF e = 1 THEN AnxiousAttached ELSE Secure

\* update on engine e: the noise comes from the module's generator and
\* _save_state writes the engine's state_file
PairUpdate(e) ==
    /\ run.ops < MaxPairOps
    /\ \E c \in PairCalls : \E new \in {Update(Engine(e), c[1], c[2], Gauss(run.rng), now)} :
          /\ self' = IF e = 1 THEN new ELSE self
          /\ peer' = IF e = 2 THEN new ELSE peer
          /\ run' = [run EXCEPT !.dir[StateFile(run.keys[e])] = File(new),
                                !.rng = NextRng(@), !.ops = @ + 1]
          /\ lastOp' = [op |-> "update", engine |-> e, dt |-> c[1], ctx |-> c[2]]
    /\ disk' = run'.dir[StateFile(run.keys[1])]
    /\ ret' = "None"
    /\ steps' = steps + 1
    /\ UNCHANGED <<now, latched, hist>>

\* PersonalityDynamics(user_id, archetype, session_id) again for the key of
\* engine e
PairConstruct(e) ==
    /\ run.ops < MaxPairOps
    /\ \E new \in {Construct(PairArchetype(e), now, run.dir[StateFile(run.keys[e])])} :
          /\ self' = IF e = 1 THEN new ELSE self
          /\ peer' = IF e = 2 THEN new ELSE peer
    /\ run' = [run EXCEPT !.ops = @ + 1]
    /\ lastOp' = [op |-> "construct", engine |-> e]
    /\ ret' = "None"
    /\ UNCHANGED <<disk, now, latched, hist, steps>>

\* should_initiate_message on engine e: the draw comes from the module's
\* generator
PairInitiate(e) ==
    /\ run.ops < MaxPairOps
    /\ ret' = ShouldInitiateMessage(Engine(e), now, Random(run.rng))
    /\ run' = [run EXCEPT !.rng = NextRng(@), !.ops = @ + 1]
    /\ lastOp' = [op |-> "should_initiate_message", engine |-> e]
    /\ UNCHANGED <<self, peer, disk, now, latched, hist, steps>>

NextPair ==
    \E e \in {1, 2} :
        \/ PairUpdate(e)
        \/ PairConstruct(e)
        \/ PairInitiate(e)

SpecPair == InitPair /\ [][NextPair]_vars

\* a step that is an operation on engine e
PairOpOn(e) == run'.ops # run.ops /\ lastOp'.engine = e

\* the snapshot of engine e in the directory
Snapshot(r, e) == r.dir[StateFile(r.keys[e])]

\* C20: no operation on one engine changes the other engine's fields, its
\* persisted snapshot, or what its later operations return (which the
\* fields, the snapshot and the state of the random generator determine)
C20_NoSharedState ==
    [][/\ PairOpOn(1) => /\ peer' = peer
                         /\ Snapshot(run', 2) = Snapshot(run, 2)
                         /\ run'.rng = run.rng
       /\ PairOpOn(2) => /\ self' = self
                         /\ Snapshot(run', 1) = Snapshot(run, 1)
                         /\ run'.rng = run.rng]_vars

\* C20, the fields alone: these no operation on the other engine changes
C20_FieldsIndependent ==
    [][/\ PairOpOn(1) => peer' = peer
       /\ PairOpOn(2) => self' = self]_vars

\* C20, the snapshots alone
C20_SnapshotsIndependent ==
    [][/\ PairOpOn(1) => Snapshot(run', 2) = Snapshot(run, 2)
       /\ PairOpOn(2) => Snapshot(run', 1) = Snapshot(run, 1)]_vars

\* C20, the snapshots of keys whose file names differ
C20_SnapshotsOfDistinctFiles ==
    [][StateFile(run.keys[1]) # StateFile(run.keys[2]) =>
          /\ PairOpOn(1) => Snapshot(run', 2) = Snapshot(run, 2)
          /\ PairOpOn(2) => Snapshot(run', 1) = Snapshot(run, 1)]_vars

---------------------------------------------------------------------------
(* Points inside update: the object's fields between two blocks of the     *)
(* body.                                                                   *)

\* blocks 1..j of update's body, run one after the other
RECURSIVE UpdateUpTo(_, _, _, _, _, _)
UpdateUpTo(j, s, dt, ctx, z, tsl) ==
    IF j < 1 THEN s
    ELSE Only({UpdateBlock(j, x, dt, ctx, z, tsl) :
               x \in {UpdateUpTo(j - 1, s, dt, ctx, z, tsl)}})

\* the object's fields when update(dt_hours, context), called at wall-clock
\* time t, reaches block j of its body
FieldsAt(j, s, dt, ctx, z, t) ==
    Only({UpdateUpTo(j - 1, m, dt, ctx, z, TimeSinceLast(m, dt, ctx, t)) :
          m \in {RecordMessage(s, ctx, t)}})

---------------------------------------------------------------------------
(* Context values outside their documented range.                          *)

CtxDeepDisclosure == [user_message_received |-> TRUE, disclosure_depth |-> 20 * S]

CtxOverResponsive == [user_message_received |-> TRUE, user_responsiveness |-> 2 * S]

CtxSevereCriticism ==
    [user_message_received |-> TRUE, user_criticized |-> TRUE,
     criticism_severity |-> 2 * S]

CtxHugeAchievement ==
    [user_message_received |-> TRUE, user_shared_achievement |-> TRUE,
     achievement_significance |-> 20 * S]

InputCalls ==
    {<<Hour, CtxDeepDisclosure, 0>>, <<Hour, CtxOverResponsive, 0>>,
     <<Hour, CtxSevereCriticism, 0>>, <<Hour, CtxHugeAchievement, 0>>}

MaxInputUpdates == 3

NextInputs == DoUpdate(InputCalls, MaxInputUpdates)

SpecInputs == InitWith(AllArchetypes) /\ [][NextInputs]_vars

\* the context with its four numeric inputs clamped to their documented
\* ranges: disclosure_depth and achievement_significance to [0, 10],
\* user_responsiveness and criticism_severity to [0, 1]
ClampContext(ctx) ==
    [k \in DOMAIN ctx |->
        CASE k \in {"disclosure_depth", "achievement_significance"} ->
               Clamp(0, 10 * S, ctx[k])
          [] k \in {"user_responsiveness", "criticism_severity"} ->
               Clamp(0, S, ctx[k])
          [] OTHER -> ctx[k]]

\* a step that is one call of update
UpdateStep == steps' = steps + 1 /\ lastOp'.op = "update"

\* the object's fields as block j of that call finds them
Before(j) == FieldsAt(j, self, lastOp'.dt, lastOp'.ctx, lastOp'.z, now)

\* C21: an update whose context carries a numeric input outside its range
\* leaves the fields as the same update with the input clamped to the range
\* would leave them.
C21_OutOfRangeClamped ==
    [][UpdateStep =>
          self' = Update(self, lastOp'.dt, ClampContext(lastOp'.ctx), lastOp'.z, now)]_vars

---------------------------------------------------------------------------
(* The return after a silence.                                             *)

\* hours between the previous user message and wall-clock time t
HoursOfSilence(s, t) == Div((t - s.last_user_message_time) * S, 60)

\* resentment after the return-after-silence increase and the decay, from
\* the fields as the resentment block finds them
ResentmentAfterReturn(pre, dt, hours) ==
    LET raised == pre.resentment
                    + MulDiv(MulDiv(20, pre.hurt, 100), Min(S, Div(hours, 12)), S)
    IN  Clamp(0, 100 * S, raised - Step(MulDiv(14, raised, 1000), dt))

\* C22: an update with a user message that arrives more than 6 hours after
\* the previous user message, with hurt above 30 and message pressure at
\* most 0.5, adds 20 * (hurt/100) * min(1, hours/12) to resentment before
\* the decay.
C22_ReturnAfterSilence ==
    [][(/\ UpdateStep
        /\ Get(lastOp'.ctx, "user_message_received", FALSE)
        /\ Get(lastOp'.ctx, "user_message_pressure", 0) <= 50
        /\ HoursOfSilence(self, now) > 6 * S
        /\ Before(10).hurt > 30 * S)
       => self'.resentment =
            ResentmentAfterReturn(Before(10), lastOp'.dt, HoursOfSilence(self, now))]_vars

---------------------------------------------------------------------------
(* Hours since contact in a silence.                                       *)

\* virtual hours of silence when the next silent update of the run returns:
\* the elapsed_hours of the silent updates so far plus its own
SilentHours == (run.silent + 1) * run.chunk

\* time_since_last of the next silent update of the run
NextTimeSinceLast == TimeSinceLast(self, run.chunk, EmptyCtx, now)

\* C23: in an update without a user message the hours since contact are the
\* total time since the last update with a user message, this update's
\* elapsed hours included and accumulated over the silent updates; past 24
\* hours in total the threat perception is 1, from 48 hours in total the
\* time factor is 2.
C23_HoursSinceContact ==
    run.phase = "silence" =>
        /\ ~run.realtime => NextTimeSinceLast = SilentHours
        /\ SilentHours > 24 * Hour => ThreatPerception(NextTimeSinceLast) = S
        /\ SilentHours >= 48 * Hour => TimeFactor(NextTimeSinceLast) = 2 * S

---------------------------------------------------------------------------
(* The order of the blocks inside one update.                              *)

\* proactivity when the shame block runs first and the proactivity rate
\* reads the shame it wrote
ProactivityAfterShame ==
    StepProactivity(StepShame(Before(7), lastOp'.dt, lastOp'.ctx), lastOp'.dt).proactivity

\* C24: within one update shame is updated before proactivity, so that the
\* shame-suppression term of proactivity reads the shame of this tick, and
\* the growth and the side effects of jealousy read the trust of this tick.
C24_UpdateOrder ==
    [][UpdateStep =>
          /\ self'.proactivity = ProactivityAfterShame
          /\ self'.jealousy = StepJealousy(Before(14), lastOp'.dt, lastOp'.ctx).jealousy
          /\ Before(14).trust = StepHurt(Before(9), lastOp'.dt, lastOp'.ctx).trust]_vars

\* proactivity when the proactivity block runs first: its rate reads the
\* shame the previous update left, and the calm-down crash of the shame
\* block multiplies the proactivity of this tick
ProactivityBeforeShame ==
    StepShame(StepProactivity(Before(7), lastOp'.dt), lastOp'.dt, lastOp'.ctx).proactivity

\* C24 as the code orders the blocks: proactivity is updated before shame;
\* the growth and the side effects of jealousy read the trust that the trust
\* block and the criticism event of this tick have written.
C24_ProactivityFirst ==
    [][UpdateStep =>
          /\ Before(7).shame = self.shame
          /\ self'.proactivity = ProactivityBeforeShame
          /\ self'.jealousy = StepJealousy(Before(14), lastOp'.dt, lastOp'.ctx).jealousy
          /\ Before(14).trust = StepHurt(Before(9), lastOp'.dt, lastOp'.ctx).trust]_vars

\* an update with a rival in its context has left shame, jealousy above 70
\* and proactivity under its baseline
C24_ShameAndJealousy ==
    /\ lastOp.op = "update" /\ lastOp.dt > 0
    /\ Get(lastOp.ctx, "rival_mentioned", FALSE)
    /\ self.shame > 0
    /\ self.jealousy > 70 * S
    /\ self.proactivity < self.proactivity_baseline

---------------------------------------------------------------------------
(* Mean reversion of valence.                                              *)

\* C25: with the noise draw 0, an update with any elapsed hours leaves
\* valence no farther from 0 than it was.
C25_ValenceMeanReverting ==
    [][UpdateStep /\ lastOp'.z = 0 => Abs(self'.valence) <= Abs(self.valence)]_vars

---------------------------------------------------------------------------
(* Traits across updates.                                                  *)

\* the object's fields as the second feedback loop of that call finds them
BeforeDrift == FeedbackLoop(1, Before(18), lastOp'.dt)

\* C26: an update leaves attachment_style_avoidance, neuroticism_baseline
\* and proactivity_baseline as they were; attachment_style_anxiety never
\* decreases, and increases only if the feedback-loop step finds it above
\* 60 with jealousy above 40.
C26_TraitsAcrossUpdates ==
    [][UpdateStep =>
          /\ self'.attachment_style_avoidance = self.attachment_style_avoidance
          /\ self'.neuroticism_baseline = self.neuroticism_baseline
          /\ self'.proactivity_baseline = self.proactivity_baseline
          /\ self'.attachment_style_anxiety >= self.attachment_style_anxiety
          /\ BeforeDrift.attachment_style_anxiety = self.attachment_style_anxiety
          /\ self'.attachment_style_anxiety > self.attachment_style_anxiety =>
                /\ BeforeDrift.attachment_style_anxiety > 60 * S
                /\ BeforeDrift.jealousy > 40 * S]_vars

\* an update has raised attachment_style_anxiety above the archetype's value
C26_DriftHappened ==
    /\ lastOp.op = "update"
    /\ self.attachment_style_anxiety
          > InitVariables(self.archetype, 0).attachment_style_anxiety
    /\ self.jealousy > 40 * S

---------------------------------------------------------------------------
(* Growth of passive_aggressive.                                           *)

\* 0.6 * (resentment/100) * (pride/100) * 100 / max(boundary_assertion, 10)
\* in one division, from the fields the passive-aggressive block finds
ClaimedPARate(pre) ==
    Div(6 * pre.resentment * pre.pride, 1000 * Max(pre.boundary_assertion, 10 * S))

\* the rounding of the rate, carried over dt hours
PATolerance(dt) == 2 * (dt \div S) + 2

\* C27: an update raises passive_aggressive only if its passive-aggressive
\* block finds resentment above 60 and boundary_assertion under 40, and then
\* by 0.6 * (resentment/100) * (pride/100) * 100 / max(boundary_assertion, 10)
\* per hour, up to the cap of 100; the denominator is never below 10.
C27_PassiveAggressiveGrowth ==
    [][UpdateStep =>
          /\ PADenominator(Before(17)) >= 10 * S
          /\ self'.passive_aggressive > self.passive_aggressive =>
                /\ Before(17).resentment > 60 * S
                /\ Before(17).boundary_assertion < 40 * S
                /\ Abs(self'.passive_aggressive
                        - Min(100 * S, self.passive_aggressive
                                + Step(ClaimedPARate(Before(17)), lastOp'.dt)))
                      <= PATolerance(lastOp'.dt)]_vars

\* an update has raised passive_aggressive from 0
C27_PassiveAggressiveGrew ==
    /\ lastOp.op = "update"
    /\ self.passive_aggressive > 0
    /\ self.resentment > 60 * S
    /\ self.boundary_assertion < 40 * S

---------------------------------------------------------------------------
(* What an update records.                                                 *)

RecordingCalls ==
    {<<Hour, CtxCriticized, 0>>, <<0, CtxMessage, 0>>, <<Hour, EmptyCtx, 0>>}

MaxRecordingUpdates == 3

\* updates with and without a user message, between messages the AI sends
\* and calls of the resistance query
NextRecording ==
    \/ DoUpdate(RecordingCalls, MaxRecordingUpdates)
    \/ AiSendsMessage(MaxUnanswered)
    \/ Tick({MaxClock}, MaxClock)
    \/ QueryShouldEnterResistanceMode

SpecRecording == Init /\ [][NextRecording]_vars

\* the fields the recording of a user message writes
RecordedFields(s) ==
    <<s.total_interactions, s.user_interaction_hours, s.user_message_timestamps,
      s.unanswered_message_count, s.resistance_mode, s.last_user_message_time>>

\* C28: an update with a user message raises total_interactions by exactly
\* 1, appends exactly one entry to each rolling buffer (which keeps its last
\* 100), sets unanswered_message_count to 0 and resistance_mode to false; an
\* update without one leaves total_interactions, both buffers,
\* unanswered_message_count, resistance_mode and last_user_message_time as
\* they were.
C28_RecordingFrame ==
    [][UpdateStep =>
          IF Get(lastOp'.ctx, "user_message_received", FALSE)
          THEN /\ self'.total_interactions = self.total_interactions + 1
               /\ self'.user_interaction_hours
                     = LastN(self.user_interaction_hours \o <<HourOf(now)>>, BufferCap)
               /\ self'.user_message_timestamps
                     = LastN(self.user_message_timestamps \o <<now>>, BufferCap)
               /\ self'.unanswered_message_count = 0
               /\ self'.resistance_mode = FALSE
          ELSE RecordedFields(self') = RecordedFields(self)]_vars

\* a second user message has been recorded after the AI had sent a message
\* of its own: the counter is back at 0 and both buffers hold two entries
C28_SecondMessageRecorded ==
    /\ lastOp.op = "update"
    /\ Get(lastOp.ctx, "user_message_received", FALSE)
    /\ self.last_ai_message_time # None
    /\ self.total_interactions = 2
    /\ Len(self.user_message_timestamps) = 2
    /\ Len(self.user_interaction_hours) = 2
    /\ self.unanswered_message_count = 0

---------------------------------------------------------------------------
(* The engine on its own: construction, update and the queries, without a  *)
(* caller that writes the engine's fields.                                 *)

NextEngine ==
    \/ DoUpdate(Calls, MaxUpdates)
    \/ Tick({MaxClock}, MaxClock)
    \/ QueryShouldEnterResistanceMode
    \/ QueryShouldInitiateMessage
    \/ QueryGetFilterEffectiveness
    \/ QueryGetMessageTone
    \/ QueryShouldSendPassiveAggressiveResponse
    \/ QueryGetEmotionalStateCategory
    \/ QueryGetStateSummary
    \/ Restart(InitArchetypes)

SpecEngine == Init /\ [][NextEngine]_vars

\* C29: no operation of the engine increases unanswered_message_count; from
\* a fresh engine, with engine operations only,
\* should_send_passive_aggressive_response never returns true and
\* get_emotional_state_category never returns passive_aggressive.
C29_EngineNeverCounts ==
    [][/\ self'.unanswered_message_count <= self.unanswered_message_count
       /\ lastOp'.op = "should_send_passive_aggressive_response" => ret'[1] = FALSE
       /\ lastOp'.op = "get_emotional_state_category" => ret' # "passive_aggressive"]_vars

\* the passive-aggressive query was refused for the count alone: the latch
\* is set, the user has been silent and resentment is present
C29_RefusedForCount ==
    /\ lastOp.op = "should_send_passive_aggressive_response"
    /\ ret = <<FALSE, "not_enough_unanswered">>
    /\ self.resistance_mode
    /\ self.unanswered_message_count = 0
    /\ now - self.last_user_message_time >= 5
    /\ self.resentment > 10 * S

---------------------------------------------------------------------------
(* The latch in the snapshot.                                              *)

\* C30: between operations the resistance_mode of the saved snapshot is the
\* resistance_mode in memory, and an engine re-created for the same key
\* reports the latch of the engine it replaces.
C30_SnapshotLatch ==
    /\ disk.exists => disk.state.resistance_mode = self.resistance_mode
    /\ Construct(self.archetype, now, disk).resistance_mode = self.resistance_mode

============================================================================
